---- MODULE Spec2Model ----
(***************************************************************************)
(* Model of the Nuxt core app assembler (packages/nuxt/src/core/app.ts)    *)
(* and of the pages module's prerender computation.                        *)
(*                                                                         *)
(* Optional JavaScript values (undefined / absent property) are modelled   *)
(* as sequences of length 0 or 1: <<>> is "absent", <<v>> is the value v.  *)
(***************************************************************************)
EXTENDS Integers, Sequences, FiniteSets, TLC

VARIABLES
  \* ---- annotatePlugins ----
  plugins,        \* argument `plugins`: the plugin descriptors, in order
  pluginSource,   \* what reading + parsing each plugin src yields
  _plugins,       \* the list returned by annotatePlugins / given to checkForCircularDependencies
  annotatePc,     \* "off" | "start" | "returned" | "threw"
  \* ---- checkForCircularDependencies ----
  given,          \* copy of the list as it was when the check was called
  deps,           \* the dependency graph `deps` (name -> dependsOn)
  depKeys,        \* insertion order of the keys of `deps`
  keyIdx,         \* position of the `for (const name in deps)` loop
  stack,          \* pending checkDeps calls of the current traversal
  missingDiags,   \* console.error lines for unregistered dependencies
  cycleDiags,     \* console.error lines for circular dependencies
  checkPc,        \* "off" | "start" | "walk" | "done" | "threw"
  \* ---- resolveApp ----
  numLayers,      \* length of nuxt.options._layers (index 0 = user project)
  fs,             \* per layer, the files found under its srcDir
  pluginSetup,    \* nuxt.options.plugins and the user layer's config.plugins
  app,            \* the NuxtApp: layouts, middleware, plugins
  resolveWarnings,\* files reported by logger.warn during discovery
  resolvePc,      \* "off" | "start" | "hook" | "hooked" | "resolved" | "threw"
  resolvePass,    \* number of the resolveApp pass (0 before the first)
  prevApp,        \* the collections as the previous pass left them
  hookedApp,      \* the collections as the 'app:resolve' handlers left them
  \* ---- generateApp ----
  appTemplates,   \* app.templates: the templates of the session
  vfs,            \* nuxt.vfs: path -> contents (absent when never staged)
  disk,           \* files written below buildDir: path -> contents
  jobs,           \* per template of the running pass: old contents, outcome, modified
  writes,         \* the closures pushed onto `writes` so far in this pass
  genFilter,      \* options.filter of the running pass
  genErrors,      \* templates reported by logger.error in this pass
  passWrites,     \* physical writes performed by this pass, in order
  hookCalls,      \* 'app:templatesGenerated' calls of this pass: arguments, files at the call
  prevVfs,        \* nuxt.vfs as it was when the running pass started
  prevJobs,       \* `jobs` of the previous pass
  pass,           \* number of generateApp passes started
  genPc,          \* "off" | "idle" | "compiling" | "done" | "rejected"
  \* ---- prerenderable routes of the pages module ----
  nitroOpts,      \* nuxt.options.dev, nitro.options.static, router hashMode
  pages,          \* the page list handed to 'pages:extend'
  prerenderRoutes,\* the Set prerenderRoutes, in insertion order
  walked,         \* positions of the pages the last processPages run looked at
  nitroRoutes,    \* nitro.options.prerender.routes
  pagesPc,        \* "off" | "init" | "skipped" | "registered" | "extended" | "built"
  \* ---- 'builder:watch' handlers ----
  watchEnv,       \* options and file-system facts the handlers read
  watchEvent,     \* the (event, relativePath) being handled
  watchCalls,     \* hook calls and log lines made for this event, in order
  watchPc,        \* "off" | "emit" | "pagesRestart" | "pagesTemplates" | "core" | "done"
  \* ---- regeneration on watch events ----
  regen,          \* per watch event so far: the event and where its handler is
  regenLog,       \* starts and ends of the generateApp passes, in order
  \* ---- inline route rules ----
  pageToGlobMap,  \* page file -> glob, null, or "undefined" when not a key
  inlineRules,    \* key -> extracted rule, "none" when not a key
  routeRules,     \* the routeRules last handed to nitro.updateConfig
  updating,       \* the updatePage call in progress, if any
  lastUpdate,     \* what the handling of the last watch event did
  onceRegistered, \* the hookOnce handler of 'pages:extend' is still registered
  scanQueue,      \* pages the running scan of the hookOnce handler has yet to visit
  scans,          \* the runs of the hookOnce handler: keys seen, pages scanned, state
  \* ---- entry components of resolveApp ----
  entryFiles,     \* the entry source files that exist now
  entryPages,     \* the pages module has registered its 'app:resolve' handler
  appEntry,       \* app.mainComponent, app.rootComponent, app.errorComponent
  entryApp,       \* which app object the session uses (a restart builds a new one)
  entryPass,      \* number of the resolveApp pass on this app object
  entryPc         \* "off" | "start" | "hook" | "resolved"

pluginVars == <<plugins, pluginSource, _plugins, annotatePc>>
checkVars == <<given, deps, depKeys, keyIdx, stack, missingDiags, cycleDiags, checkPc>>
resolveVars == <<numLayers, fs, pluginSetup, app, resolveWarnings, resolvePc,
                resolvePass, prevApp, hookedApp>>
genVars == <<appTemplates, vfs, disk, jobs, writes, genFilter, genErrors, passWrites,
            hookCalls, prevVfs, prevJobs, pass, genPc>>
pagesVars == <<nitroOpts, pages, prerenderRoutes, walked, nitroRoutes, pagesPc>>
watchVars == <<watchEnv, watchEvent, watchCalls, watchPc>>
regenVars == <<regen, regenLog>>
rulesVars == <<pageToGlobMap, inlineRules, routeRules, updating, lastUpdate,
              onceRegistered, scanQueue, scans>>
entryVars == <<entryFiles, entryPages, appEntry, entryApp, entryPass, entryPc>>
vars == <<pluginVars, checkVars, resolveVars, genVars, pagesVars, watchVars, regenVars,
         rulesVars, entryVars>>

\* what each part of the program leaves alone
outsideAnnotate == <<checkVars, resolveVars, genVars, pagesVars, watchVars, regenVars, rulesVars, entryVars>>
outsideCheck == <<plugins, pluginSource, annotatePc, resolveVars, genVars, pagesVars, watchVars, regenVars, rulesVars, entryVars>>
outsideResolve == <<pluginVars, checkVars, genVars, pagesVars, watchVars, regenVars, rulesVars, entryVars>>
outsideGen == <<pluginVars, checkVars, resolveVars, pagesVars, watchVars, regenVars, rulesVars, entryVars>>
outsidePages == <<pluginVars, checkVars, resolveVars, genVars, watchVars, regenVars, rulesVars, entryVars>>
outsideWatch == <<pluginVars, checkVars, resolveVars, genVars, pagesVars, regenVars, rulesVars, entryVars>>
outsideRules == <<pluginVars, checkVars, resolveVars, genVars, pagesVars, watchVars, regenVars, entryVars>>
outsideEntry == <<pluginVars, checkVars, resolveVars, genVars, pagesVars, watchVars, regenVars, rulesVars>>
outsideRegen == <<pluginVars, checkVars, resolveVars, genVars, pagesVars, rulesVars, entryVars>>

\* ------------------------------------------------------------------------
\* Generic helpers
\* ------------------------------------------------------------------------
Absent == <<>>
Some(v) == <<v>>
Has(o) == o # <<>>

Range(s) == {s[i] : i \in 1..Len(s)}

SeqsUpTo(S, n) == UNION {[1..k -> S] : k \in 0..n}

Reverse(s) == [i \in 1..Len(s) |-> s[Len(s) + 1 - i]]

\* ------------------------------------------------------------------------
\* Bounds
\* ------------------------------------------------------------------------
MaxPlugins == 3
MaxCheckPlugins == 3
\* depth of nested checkDeps calls at which the engine gives up (RangeError)
MaxCallDepth == 6
MaxLayers == 2
MaxFilesPerLayer == 1
MaxPasses == 2
MaxResolvePasses == 2
MaxTopPages == 2
MaxWatchEvents == 2
\* resolveApp passes on one app object, and app objects of a session
MaxEntryPasses == 3
MaxApps == 2

\* ------------------------------------------------------------------------
\* annotatePlugins (app.ts 207-228)
\* ------------------------------------------------------------------------
\* orderMap.default of plugins/plugin-metadata, the key of a plugin without order
orderMap_default == 0

PluginSrcs == {"p1", "p2", "p3"}
\* p1 and p2 are object-syntax plugins named a and b; b depends on a, and a
\* may depend on b. p3 is a plugin whose static metadata cannot be extracted.
PluginNameOf(src) == IF src = "p1" THEN "a" ELSE "b"
DependsOnChoices(src) ==
  IF src = "p1" THEN {Absent, Some(<<"b">>)} ELSE {Some(<<"a">>)}
\* sample order values on both sides of the default
OptOrders == {Absent, Some(0 - 20), Some(20)}

\* A plugin descriptor as normalizePlugin leaves it: src and an optional order.
PluginDescriptors == [src : PluginSrcs, order : {Absent, Some(20)}]

\* What `fsp.readFile` / `nuxt.vfs[src]` followed by extractMetadata gives for
\* a src: the read fails, the metadata is invalid, or static metadata.
NoMeta(k) == [kind |-> k, name |-> Absent, order |-> Absent, dependsOn |-> Absent]
SourcesOf(src) ==
  IF src = "p3" THEN {NoMeta("unreadable"), NoMeta("invalid")}
  ELSE {NoMeta("invalid")} \cup
       {[kind |-> "meta", name |-> Some(PluginNameOf(src)), order |-> o, dependsOn |-> d] :
          o \in OptOrders, d \in DependsOnChoices(src)}

\* extractMetadata(code) / readFile throw inside the try block
ExtractThrows(code) == code.kind # "meta"

\* { ...await extractMetadata(code), ...plugin }: the descriptor's own
\* properties override the extracted ones.
SpreadMeta(meta, plugin) ==
  [src |-> plugin.src,
   name |-> meta.name,
   order |-> IF Has(plugin.order) THEN plugin.order ELSE meta.order,
   dependsOn |-> meta.dependsOn]

PushPlain_dropped(plugin) == <<>>

\* catch branch: _plugins.push(plugin)
PushPlain(plugin) ==
  <<[src |-> plugin.src, name |-> Absent, order |-> plugin.order, dependsOn |-> Absent]>>

\* One iteration of the for loop: what is pushed onto _plugins for `plugin`.
AnnotateEntry(plugin, code) ==
  IF ExtractThrows(code) THEN PushPlain(plugin)
  ELSE <<SpreadMeta(code, plugin)>>

RECURSIVE CollectPlugins(_, _)
CollectPlugins(ps, source) ==
  IF ps = <<>> THEN <<>>
  ELSE AnnotateEntry(Head(ps), source[Head(ps).src]) \o CollectPlugins(Tail(ps), source)

\* a.order ?? orderMap.default
EffectiveOrder(p) == IF Has(p.order) THEN p.order[1] ELSE orderMap_default

\* the comparator without the `?? orderMap.default` fallback: a missing order
\* makes the difference NaN, which sort treats as "equal"
RECURSIVE InsertByOrder_noDefault(_, _)
InsertByOrder_noDefault(sorted, p) ==
  IF sorted = <<>> THEN <<p>>
  ELSE IF \/ ~Has(Head(sorted).order) \/ ~Has(p.order)
          \/ Head(sorted).order[1] - p.order[1] <= 0
       THEN <<Head(sorted)>> \o InsertByOrder_noDefault(Tail(sorted), p)
       ELSE <<p>> \o sorted

\* Array.prototype.sort with the comparator of line 227 (stable).
RECURSIVE InsertByOrder(_, _)
InsertByOrder(sorted, p) ==
  IF sorted = <<>> THEN <<p>>
  ELSE IF EffectiveOrder(Head(sorted)) - EffectiveOrder(p) <= 0
       THEN <<Head(sorted)>> \o InsertByOrder(Tail(sorted), p)
       ELSE <<p>> \o sorted

RECURSIVE SortByOrder(_)
SortByOrder(ps) ==
  IF ps = <<>> THEN <<>>
  ELSE InsertByOrder(SortByOrder(SubSeq(ps, 1, Len(ps) - 1)), ps[Len(ps)])

annotatePlugins(ps, source) == SortByOrder(CollectPlugins(ps, source))

\* the parts of the program a specification does not exercise stay idle
AnnotateIdle ==
  plugins = <<>> /\ pluginSource = <<>> /\ annotatePc = "off"

CheckIdle ==
  /\ given = <<>> /\ deps = <<>> /\ depKeys = <<>> /\ keyIdx = 0
  /\ stack = <<>> /\ missingDiags = <<>> /\ cycleDiags = <<>>
  /\ checkPc = "off"

ResolveIdle ==
  /\ numLayers = 0 /\ fs = <<>> /\ pluginSetup = <<>> /\ app = <<>>
  /\ resolveWarnings = {} /\ resolvePc = "off"
  /\ resolvePass = 0 /\ prevApp = <<>> /\ hookedApp = <<>>

GenIdle ==
  /\ appTemplates = <<>>
  /\ vfs = <<>> /\ disk = <<>> /\ jobs = <<>> /\ writes = <<>> /\ genFilter = ""
  /\ genErrors = {} /\ passWrites = <<>> /\ hookCalls = <<>>
  /\ prevVfs = <<>> /\ prevJobs = <<>> /\ pass = 0 /\ genPc = "off"

PagesIdle ==
  /\ nitroOpts = <<>> /\ pages = <<>> /\ prerenderRoutes = <<>> /\ nitroRoutes = <<>>
  /\ walked = {}
  /\ pagesPc = "off"

WatchIdle ==
  /\ watchEnv = <<>> /\ watchEvent = <<>> /\ watchCalls = <<>> /\ watchPc = "off"

RegenIdle == regen = <<>> /\ regenLog = <<>>

EntryIdle ==
  /\ entryFiles = {} /\ entryPages = FALSE /\ appEntry = <<>>
  /\ entryApp = 0 /\ entryPass = 0 /\ entryPc = "off"

RulesIdle ==
  /\ pageToGlobMap = <<>> /\ inlineRules = <<>> /\ routeRules = <<>>
  /\ updating = <<>> /\ lastUpdate = <<>>
  /\ onceRegistered = FALSE /\ scanQueue = <<>> /\ scans = <<>>

InitAnnotate ==
  /\ plugins \in SeqsUpTo(PluginDescriptors, MaxPlugins)
  /\ pluginSource \in {f \in [PluginSrcs -> UNION {SourcesOf(s) : s \in PluginSrcs}] :
                         \A s \in PluginSrcs : f[s] \in SourcesOf(s)}
  /\ _plugins = <<>>
  /\ annotatePc = "start"
  /\ CheckIdle
  /\ ResolveIdle
  /\ GenIdle
  /\ PagesIdle
  /\ WatchIdle
  /\ RegenIdle
  /\ RulesIdle
  /\ EntryIdle

Annotate ==
  /\ annotatePc = "start"
  /\ _plugins' = annotatePlugins(plugins, pluginSource)
  /\ annotatePc' = "returned"
  /\ UNCHANGED <<plugins, pluginSource, outsideAnnotate>>

NextAnnotate == Annotate

SpecAnnotate == InitAnnotate /\ [][NextAnnotate]_vars

\* ------------------------------------------------------------------------
\* checkForCircularDependencies (app.ts 230-254)
\* ------------------------------------------------------------------------
\* A dependency on a name is unregistered when no plugin of the list has it.
CheckNames == {"a", "b", "c"}

\* declared dependsOn lists of a named plugin: one name or two names
DependsOnLists == {<<"a">>, <<"b">>, <<"c">>, <<"b", "c">>}

\* The annotated plugins the check may be given (annotatePlugins' output
\* type): named plugins, and unnamed plugins with or without a dependency.
CheckPlugins ==
  [src : {"p1"},
   name : {Some(n) : n \in CheckNames},
   order : {Absent},
   dependsOn : {Absent} \cup {Some(d) : d \in DependsOnLists}]
  \cup
  [src : {"p1"}, name : {Absent}, order : {Absent}, dependsOn : {Absent, Some(<<"a">>)}]

\* const pluginNames = _plugins.map(plugin => plugin.name)
PluginNames(ps) == {ps[i].name : i \in 1..Len(ps)}

\* plugin.dependsOn.filter(name => !pluginNames.includes(name))
RECURSIVE FilterMissing(_, _)
FilterMissing(d, names) ==
  IF d = <<>> THEN <<>>
  ELSE (IF Some(Head(d)) \in names THEN <<>> ELSE <<Head(d)>>) \o FilterMissing(Tail(d), names)

\* the console.error lines of 235-237, one per plugin with an unregistered dependency
RECURSIVE MissingDiagnostics(_, _)
MissingDiagnostics(ps, names) ==
  IF ps = <<>> THEN <<>>
  ELSE (IF Has(Head(ps).dependsOn) /\ FilterMissing(Head(ps).dependsOn[1], names) # <<>>
        THEN <<[plugin |-> Head(ps).name,
                missing |-> FilterMissing(Head(ps).dependsOn[1], names)]>>
        ELSE <<>>)
       \o MissingDiagnostics(Tail(ps), names)

\* plugin.dependsOn || []
DependsOnOrEmpty(plugin) == IF Has(plugin.dependsOn) THEN plugin.dependsOn[1] ELSE <<>>

\* deps[plugin.name] = plugin.dependsOn || [] for every named plugin, in list
\* order: a later plugin of the same name overwrites the entry.
DepsGraph(ps) ==
  [n \in {ps[i].name[1] : i \in {j \in 1..Len(ps) : Has(ps[j].name)}} |->
     LET last == CHOOSE i \in 1..Len(ps) :
                   /\ ps[i].name = Some(n)
                   /\ \A j \in 1..Len(ps) : ps[j].name = Some(n) => j <= i
     IN DependsOnOrEmpty(ps[last])]

\* property enumeration order of `for (const name in deps)`: first insertion
RECURSIVE DepKeyOrder(_, _)
DepKeyOrder(ps, seen) ==
  IF ps = <<>> THEN <<>>
  ELSE IF Has(Head(ps).name) /\ Head(ps).name[1] \notin seen
       THEN <<Head(ps).name[1]>> \o DepKeyOrder(Tail(ps), seen \cup {Head(ps).name[1]})
       ELSE DepKeyOrder(Tail(ps), seen)

InitCircular ==
  /\ AnnotateIdle
  /\ ResolveIdle
  /\ GenIdle
  /\ PagesIdle
  /\ WatchIdle
  /\ RegenIdle
  /\ RulesIdle
  /\ EntryIdle
  /\ _plugins \in SeqsUpTo(CheckPlugins, MaxCheckPlugins)
  /\ given = <<>> /\ deps = <<>> /\ depKeys = <<>> /\ keyIdx = 0
  /\ stack = <<>> /\ missingDiags = <<>> /\ cycleDiags = <<>>
  /\ checkPc = "start"

\* a loop body that normalises the plugin in place
\* (plugin.dependsOn = plugin.dependsOn || [])
BuildDeps_normalizesInPlace ==
  /\ checkPc = "start"
  /\ given' = _plugins
  /\ missingDiags' = MissingDiagnostics(_plugins, PluginNames(_plugins))
  /\ deps' = DepsGraph(_plugins)
  /\ depKeys' = DepKeyOrder(_plugins, {})
  /\ keyIdx' = 1
  /\ checkPc' = "walk"
  /\ _plugins' = [i \in 1..Len(_plugins) |->
                    [_plugins[i] EXCEPT !.dependsOn = Some(DependsOnOrEmpty(_plugins[i]))]]
  /\ UNCHANGED <<outsideCheck, stack, cycleDiags>>

\* lines 231-242: pluginNames, the missing-dependency diagnostics and the graph
BuildDeps ==
  /\ checkPc = "start"
  /\ given' = _plugins
  /\ missingDiags' = MissingDiagnostics(_plugins, PluginNames(_plugins))
  /\ deps' = DepsGraph(_plugins)
  /\ depKeys' = DepKeyOrder(_plugins, {})
  /\ keyIdx' = 1
  /\ checkPc' = "walk"
  /\ UNCHANGED <<outsideCheck, _plugins, stack, cycleDiags>>

\* for (const name in deps) { checkDeps(name) }: the next top-level call,
\* with the default argument visited = []
WalkStart ==
  /\ checkPc = "walk"
  /\ stack = <<>>
  /\ keyIdx <= Len(depKeys)
  /\ stack' = <<[name |-> depKeys[keyIdx], visited |-> <<>>, depth |-> 1]>>
  /\ keyIdx' = keyIdx + 1
  /\ UNCHANGED <<outsideCheck, _plugins, given, deps, depKeys, missingDiags, cycleDiags, checkPc>>

PushVisited_forgotten(visited, name) == visited

\* visited.push(name)
PushVisited(visited, name) == Append(visited, name)

\* a walk that follows only the first dependency of a plugin
ChildrenOf_firstOnly(name) ==
  IF name \in DOMAIN deps /\ deps[name] # <<>> THEN <<deps[name][1]>> ELSE <<>>

\* deps[name]?.length ? deps[name] : []
ChildrenOf(name) == IF name \in DOMAIN deps THEN deps[name] ELSE <<>>

\* One call of checkDeps (243-250). The calls of flatMap run one after the
\* other, each with its own copy [...visited], so the pending calls form a
\* stack whose top is the call that runs next. A call nested deeper than the
\* engine's call stack allows throws out of the function.
WalkStep ==
  /\ checkPc = "walk"
  /\ stack # <<>>
  /\ LET call == Head(stack)
         visited == PushVisited(call.visited, call.name)
         kids == ChildrenOf(call.name)
     IN IF call.depth > MaxCallDepth
        THEN /\ checkPc' = "threw"
             /\ stack' = <<>>
             /\ cycleDiags' = cycleDiags
        ELSE IF call.name \in Range(call.visited)
        THEN /\ cycleDiags' = Append(cycleDiags, Append(call.visited, call.name))
             /\ stack' = Tail(stack)
             /\ checkPc' = checkPc
        ELSE /\ cycleDiags' = cycleDiags
             /\ stack' = [i \in 1..Len(kids) |->
                             [name |-> kids[i], visited |-> visited, depth |-> call.depth + 1]]
                            \o Tail(stack)
             /\ checkPc' = checkPc
  /\ UNCHANGED <<outsideCheck, _plugins, given, deps, depKeys, keyIdx, missingDiags>>

\* the for-in loop is exhausted: the function returns
WalkReturn ==
  /\ checkPc = "walk"
  /\ stack = <<>>
  /\ keyIdx > Len(depKeys)
  /\ checkPc' = "done"
  /\ UNCHANGED <<outsideCheck, _plugins, given, deps, depKeys, keyIdx, stack, missingDiags, cycleDiags>>

NextCircular == BuildDeps \/ WalkStart \/ WalkStep \/ WalkReturn

SpecCircular == InitCircular /\ [][NextCircular]_vars

\* The function is synchronous: once called it keeps running.
SpecCircularFair == SpecCircular /\ WF_vars(NextCircular)

\* ------------------------------------------------------------------------
\* resolveApp (app.ts 93-195): layouts, middleware and plugins
\* ------------------------------------------------------------------------
\* Files a layer may hold below its srcDir, listed in path order (the order
\* in which resolveFiles returns them): kind directory, sub-directories,
\* and the dot-separated parts of the file name without its extension.
SrcFile(k, sub, stem) == [kind |-> k, sub |-> sub, stem |-> stem]
FilesInPathOrder ==
  << SrcFile("layouts", <<>>, <<"default">>),            \* layouts/default.vue
     SrcFile("layouts", <<"default">>, <<"index">>),     \* layouts/default/index.vue
     SrcFile("layouts", <<>>, <<"index">>),              \* layouts/index.vue
     SrcFile("middleware", <<>>, <<"auth">>),            \* middleware/auth.ts
     SrcFile("middleware", <<>>, <<"index">>),           \* middleware/index.ts
     SrcFile("plugins", <<>>, <<"p">>) >>                \* plugins/p.ts
LayerFiles == Range(FilesInPathOrder)

\* An absolute path: the layer whose srcDir holds the file (-1: a path
\* outside every layer, e.g. a module's runtime directory), the file, and
\* whether the path is fully resolved (alias expanded, extension present).
AbsPath(l, f) == [layer |-> l, file |-> f, full |-> TRUE]
AliasPath(l, f) == [layer |-> l, file |-> f, full |-> FALSE]
ModuleFile(stem) == AbsPath(0 - 1, SrcFile("module", <<>>, <<stem>>))

\* resolveFiles(config.srcDir, pattern) of @nuxt/kit: the layer's files of one
\* kind directory, sorted by path
RECURSIVE FilterFiles(_, _, _, _)
FilterFiles(files, present, kind, l) ==
  IF files = <<>> THEN <<>>
  ELSE (IF Head(files) \in present /\ Head(files).kind = kind
        THEN <<AbsPath(l, Head(files))>> ELSE <<>>)
       \o FilterFiles(Tail(files), present, kind, l)
resolveFiles(l, kind) == FilterFiles(FilesInPathOrder, fs[l], kind, l)

\* getNameFromPath(file, relativeTo) of core/utils: the kebab-case name made
\* of the directories below relativeTo and the file name, `index` ignored;
\* without relativeTo only the file name counts. <<>> is the empty name.
getNameFromPath(file, withDirs) ==
  (IF withDirs THEN file.sub ELSE <<>>)
    \o (IF file.stem = <<"index">> THEN <<>> ELSE file.stem)

\* uniqueBy(arr, key) of core/utils: the first item of every key is kept
RECURSIVE uniqueByFrom(_, _, _)
uniqueByFrom(arr, key, seen) ==
  IF arr = <<>> THEN <<>>
  ELSE IF Head(arr)[key] \in seen THEN uniqueByFrom(Tail(arr), key, seen)
       ELSE <<Head(arr)>> \o uniqueByFrom(Tail(arr), key, seen \cup {Head(arr)[key]})
uniqueBy(arr, key) == uniqueByFrom(arr, key, {})

\* resolvePath(resolveAlias(path)) of @nuxt/kit: the fully resolved path of
\* a file that exists; a path that resolves to no file comes back as given
resolvePath(path) ==
  IF path.layer < 0 \/ path.file \in fs[path.layer]
  THEN [path EXCEPT !.full = TRUE] ELSE path

\* resolvePaths(items, key), lines 197-205
resolvePaths(items, key) ==
  [i \in 1..Len(items) |-> [items[i] EXCEPT ![key] = resolvePath(items[i][key])]]

\* layerConfigs (index 0 first) and reversedConfigs (user layer last)
layerConfigs == [i \in 1..numLayers |-> i - 1]
reversedConfigs == Reverse(layerConfigs)

RECURSIVE FlatMapFiles(_, _)
FlatMapFiles(layers, kind) ==
  IF layers = <<>> THEN <<>>
  ELSE resolveFiles(Head(layers), kind) \o FlatMapFiles(Tail(layers), kind)

\* a layout loop that assigns unconditionally (app.layouts[name] = { name, file })
LayoutAssign_overwrites(layouts, name, file) ==
  [n \in DOMAIN layouts \cup {name} |->
     IF n = name THEN [name |-> name, file |-> file] ELSE layouts[n]]

\* line 133: app.layouts[name] = app.layouts[name] || { name, file }
LayoutAssign(layouts, name, file) ==
  IF name \in DOMAIN layouts THEN layouts
  ELSE [n \in DOMAIN layouts \cup {name} |->
          IF n = name THEN [name |-> name, file |-> file] ELSE layouts[n]]

\* a loop body without the `if (!name) { ...; continue }` guard
SkipsUnnamed_never(name) == FALSE

\* lines 128 and 144: if (!name) { logger.warn(...); continue }
SkipsUnnamed(name) == name = <<>>

\* lines 122-135: the layout loop over the files of layerConfigs
RECURSIVE AddLayouts(_, _)
AddLayouts(layouts, files) ==
  IF files = <<>> THEN layouts
  ELSE LET name == getNameFromPath(Head(files).file, TRUE)
       IN AddLayouts(IF SkipsUnnamed(name) THEN layouts
                     ELSE LayoutAssign(layouts, name, Head(files)),
                     Tail(files))

\* hasSuffix(file, '.global') of core/utils: the file name without its
\* extension ends in .global
hasSuffix(path) ==
  Len(path.file.stem) > 1 /\ path.file.stem[Len(path.file.stem)] = "global"

\* lines 138-151: the middleware loop over the files of reversedConfigs
RECURSIVE AddMiddleware(_)
AddMiddleware(files) ==
  IF files = <<>> THEN <<>>
  ELSE LET name == getNameFromPath(Head(files).file, FALSE)
       IN (IF SkipsUnnamed(name) THEN <<>>
           ELSE <<[name |-> name, path |-> Head(files), global |-> hasSuffix(Head(files))]>>)
          \o AddMiddleware(Tail(files))

\* a pass that goes on with the collections of the pass before
FreshCollections_keepsOld(a) == a

\* lines 122, 138 and 154: app.layouts = {}, app.middleware = [], app.plugins = []
FreshCollections(a) == [layouts |-> <<>>, middleware |-> <<>>, plugins |-> <<>>]

\* the files the two loops warn about
WarnedFiles(layoutFiles, middlewareFiles) ==
  {f \in Range(layoutFiles) : SkipsUnnamed(getNameFromPath(f.file, TRUE))}
  \cup {f \in Range(middlewareFiles) : SkipsUnnamed(getNameFromPath(f.file, FALSE))}

\* a first de-duplication without the two reversals
DedupeDiscoveredMiddleware_noReverse(mw) == uniqueBy(resolvePaths(mw, "path"), "name")

\* line 177: uniqueBy(resolvePaths([...app.middleware].reverse(), 'path'), 'name').reverse()
DedupeDiscoveredMiddleware(mw) ==
  Reverse(uniqueBy(resolvePaths(Reverse(mw), "path"), "name"))

\* normalizePlugin of @nuxt/kit: a descriptor with the given src, for both
\* the server and the client unless the plugin object says otherwise
normalizePlugin(src) == [src |-> src, mode |-> "all"]

\* config.plugins of a layer: only the user layer's config declares plugins
ConfigPlugins(l) == IF l = 0 THEN pluginSetup.config ELSE <<>>

\* lines 154-166: config.plugins and plugin files of reversedConfigs
RECURSIVE LayerPlugins(_)
LayerPlugins(layers) ==
  IF layers = <<>> THEN <<>>
  ELSE LET srcs == ConfigPlugins(Head(layers)) \o resolveFiles(Head(layers), "plugins")
       IN [i \in 1..Len(srcs) |-> normalizePlugin(srcs[i])] \o LayerPlugins(Tail(layers))

\* a loop that pushes at the end instead of unshifting
AddBackPlugins_atEnd(list, declaredReversed) ==
  list \o [i \in 1..Len(declaredReversed) |->
             normalizePlugin(declaredReversed[Len(declaredReversed) + 1 - i])]

\* lines 169-174: for (const p of [...nuxt.options.plugins].reverse()),
\* unshift the plugins whose src is not yet in app.plugins
RECURSIVE AddBackPlugins(_, _)
AddBackPlugins(list, declaredReversed) ==
  IF declaredReversed = <<>> THEN list
  ELSE LET plugin == normalizePlugin(Head(declaredReversed))
       IN AddBackPlugins(IF \E i \in 1..Len(list) : list[i].src = plugin.src
                         THEN list ELSE <<plugin>> \o list,
                         Tail(declaredReversed))

\* line 178 and 194: uniqueBy(await resolvePaths(app.plugins, 'src'), 'src')
DedupePlugins(list) == uniqueBy(resolvePaths(list, "src"), "src")

\* nuxt.options.plugins (declared) and the user layer's config.plugins
PluginSetups ==
  { [declared |-> <<>>, config |-> <<>>],
    \* two plugins added by modules
    [declared |-> <<ModuleFile("m1"), ModuleFile("m2")>>, config |-> <<>>],
    \* a plugin of the user's config next to one added by a module
    [declared |-> <<ModuleFile("m1"), ModuleFile("c1")>>, config |-> <<ModuleFile("c1")>>],
    \* '~/plugins/p' declared as an alias of the user layer's plugins/p.ts
    [declared |-> <<AliasPath(0, SrcFile("plugins", <<>>, <<"p">>))>>, config |-> <<>>] }

LayerListings == {S \in SUBSET LayerFiles : Cardinality(S) <= MaxFilesPerLayer}

NoApp == [layouts |-> <<>>, middleware |-> <<>>, plugins |-> <<>>]

InitResolve ==
  /\ AnnotateIdle /\ _plugins = <<>>
  /\ CheckIdle
  /\ GenIdle
  /\ PagesIdle
  /\ WatchIdle
  /\ RegenIdle
  /\ RulesIdle
  /\ EntryIdle
  /\ numLayers \in 1..MaxLayers
  /\ fs \in [0..(numLayers - 1) -> LayerListings]
  /\ pluginSetup \in PluginSetups
  /\ app = NoApp
  /\ prevApp = NoApp
  /\ hookedApp = NoApp
  /\ resolveWarnings = {}
  /\ resolvePass = 1
  /\ resolvePc = "start"

\* resolveApp up to the 'app:resolve' hook: layouts, middleware and plugins
\* (lines 119-178). The entry components (94-117) and app.configs (181-187)
\* are fields that none of these lines reads or writes.
Discover ==
  /\ resolvePc = "start"
  /\ LET layoutFiles == FlatMapFiles(layerConfigs, "layouts")
         middlewareFiles == FlatMapFiles(reversedConfigs, "middleware")
         fresh == FreshCollections(app)
     IN /\ app' = [layouts |-> AddLayouts(fresh.layouts, layoutFiles),
                   middleware |-> DedupeDiscoveredMiddleware(
                                    fresh.middleware \o AddMiddleware(middlewareFiles)),
                   plugins |-> DedupePlugins(
                                 AddBackPlugins(fresh.plugins \o LayerPlugins(reversedConfigs),
                                                Reverse(pluginSetup.declared)))]
        /\ resolveWarnings' = WarnedFiles(layoutFiles, middlewareFiles)
  /\ hookedApp' = NoApp
  /\ resolvePc' = "hook"
  /\ UNCHANGED <<numLayers, fs, pluginSetup, resolvePass, prevApp, outsideResolve>>

\* What the handlers of 'app:resolve' do to the app: nothing; the pages
\* module's handler (part_000 569-579); a handler that pushes a middleware
\* named like a discovered one; a handler that pushes a client-only plugin
\* under the alias of a discovered one; the pages module's handler followed
\* by the middleware-pushing one.
ValidateMiddleware ==
  [name |-> <<"validate">>, path |-> ModuleFile("validate"), global |-> TRUE]

AppResolveHandlers == {"none", "pages", "pushMiddleware", "pushPlugin", "pages+pushMiddleware"}

PagesHandler(a) == [a EXCEPT !.middleware = <<ValidateMiddleware>> \o a.middleware]

PushMiddleware(a) ==
  [a EXCEPT !.middleware = a.middleware \o
     <<[name |-> <<"auth">>, path |-> ModuleFile("auth"), global |-> FALSE]>>]

PushPlugin(a) ==
  [a EXCEPT !.plugins = a.plugins \o
     <<[src |-> AliasPath(0, SrcFile("plugins", <<>>, <<"p">>)), mode |-> "client"]>>]

ApplyHandler(h, a) ==
  CASE h = "none" -> a
    [] h = "pages" -> PagesHandler(a)
    [] h = "pushMiddleware" -> PushMiddleware(a)
    [] h = "pushPlugin" -> PushPlugin(a)
    [] h = "pages+pushMiddleware" -> PushMiddleware(PagesHandler(a))

\* a return without the second de-duplication
FinalDedupe_skipped(a) == a

\* lines 193-194: the final de-duplication
FinalDedupe(a) ==
  [a EXCEPT !.middleware = uniqueBy(resolvePaths(a.middleware, "path"), "name"),
            !.plugins = DedupePlugins(a.plugins)]

\* line 190: await nuxt.callHook('app:resolve', app)
CallAppResolve ==
  /\ resolvePc = "hook"
  /\ \E h \in AppResolveHandlers : app' = ApplyHandler(h, app)
  /\ hookedApp' = app'
  /\ resolvePc' = "hooked"
  /\ UNCHANGED <<numLayers, fs, pluginSetup, resolveWarnings, resolvePass, prevApp,
                 outsideResolve>>

\* lines 193-194, after the hook has returned: de-duplicate again and return
DedupeAfterHook ==
  /\ resolvePc = "hooked"
  /\ app' = FinalDedupe(app)
  /\ resolvePc' = "resolved"
  /\ UNCHANGED <<numLayers, fs, pluginSetup, resolveWarnings, resolvePass, prevApp,
                 hookedApp, outsideResolve>>

NextResolve == Discover \/ CallAppResolve \/ DedupeAfterHook

SpecResolve == InitResolve /\ [][NextResolve]_vars

\* Several passes over one app object: generateApp calls resolveApp(nuxt, app)
\* at the start of every pass (line 25). The layers hold at most one file of
\* each kind here.
RebuildFiles ==
  {f \in LayerFiles : f.sub = <<>> /\ f.stem \in {<<"default">>, <<"auth">>, <<"p">>}}
RebuildListings == {S \in SUBSET RebuildFiles : Cardinality(S) <= MaxFilesPerLayer}

InitResolveAgain ==
  /\ AnnotateIdle /\ _plugins = <<>>
  /\ CheckIdle
  /\ GenIdle
  /\ PagesIdle
  /\ WatchIdle
  /\ RegenIdle
  /\ RulesIdle
  /\ EntryIdle
  /\ numLayers \in 1..MaxLayers
  /\ fs \in [0..(numLayers - 1) -> RebuildListings]
  /\ pluginSetup \in PluginSetups
  /\ app = NoApp
  /\ prevApp = NoApp
  /\ hookedApp = NoApp
  /\ resolveWarnings = {}
  /\ resolvePass = 1
  /\ resolvePc = "start"

\* A file of a layer is deleted and the next pass calls resolveApp with the
\* app object the pass before has filled.
ResolveAgain ==
  /\ resolvePc = "resolved"
  /\ resolvePass < MaxResolvePasses
  /\ \E l \in 0..(numLayers - 1) : \E f \in fs[l] :
       fs' = [fs EXCEPT ![l] = @ \ {f}]
  /\ prevApp' = app
  /\ resolvePass' = resolvePass + 1
  /\ resolvePc' = "start"
  /\ UNCHANGED <<numLayers, pluginSetup, app, hookedApp, resolveWarnings, outsideResolve>>

NextResolveAgain == Discover \/ CallAppResolve \/ DedupeAfterHook \/ ResolveAgain

SpecResolveAgain == InitResolveAgain /\ [][NextResolveAgain]_vars

\* ------------------------------------------------------------------------
\* generateApp (app.ts 23-90)
\* ------------------------------------------------------------------------
\* app.templates after normalizeTemplate: filename (base name and its
\* extensions) and the write flag. Filenames are distinct, as addTemplate
\* keeps them.
Template(base, exts, write) == [base |-> base, exts |-> exts, write |-> write]

\* The template lists a session can hold: the templates of the pages module,
\* and a list in which a module added routes.js next to routes.mjs.
TemplateSets ==
  { << Template("routes", <<"mjs">>, FALSE),                \* routes.mjs
       Template("vue-router-stub", <<"mjs">>, TRUE),        \* vue-router-stub.mjs
       Template("vue-router-stub", <<"d", "ts">>, TRUE) >>, \* vue-router-stub.d.ts
    << Template("routes", <<"mjs">>, FALSE),                \* routes.mjs
       Template("routes", <<"js">>, TRUE),                  \* routes.js
       Template("vue-router-stub", <<"mjs">>, TRUE) >> }    \* vue-router-stub.mjs

\* line 39: app.templates
Templates == appTemplates
TemplateIds == 1..Len(Templates)

\* what a template can compile to
Contents == {"x", "y"}

\* line 45: resolve(nuxt.options.buildDir, template.filename)
FullPath(t) == [root |-> "buildDir", base |-> t.base, exts |-> t.exts]

\* line 57: '#build/' + template.filename.replace(/\.\w+$/, '')
AliasOf(t) ==
  [root |-> "#build", base |-> t.base, exts |-> SubSeq(t.exts, 1, Len(t.exts) - 1)]

VfsPaths == {FullPath(Templates[i]) : i \in TemplateIds}
              \cup {AliasOf(Templates[i]) : i \in TemplateIds}
DiskPaths == {FullPath(Templates[i]) : i \in TemplateIds}

\* options.filter: none, or the filter of updateTemplates for routes.mjs
Filters == {"none", "routes"}
\* a filter that lets every template through
PassesFilter_all(f, t) == TRUE

\* lines 39-40: !options.filter || options.filter(template)
PassesFilter(f, t) == f = "none" \/ (t.base = "routes" /\ t.exts = <<"mjs">>)

NoJob == [status |-> "none", old |-> Absent, contents |-> Absent, modified |-> Absent]

InitGen ==
  /\ AnnotateIdle /\ _plugins = <<>>
  /\ CheckIdle
  /\ ResolveIdle
  /\ PagesIdle
  /\ WatchIdle
  /\ RegenIdle
  /\ RulesIdle
  /\ EntryIdle
  /\ appTemplates \in TemplateSets
  /\ vfs = [p \in VfsPaths |-> Absent]
  /\ disk = [p \in DiskPaths |-> Absent]
  /\ jobs = [i \in TemplateIds |-> NoJob]
  /\ prevJobs = [i \in TemplateIds |-> NoJob]
  /\ prevVfs = [p \in VfsPaths |-> Absent]
  /\ writes = <<>> /\ passWrites = <<>> /\ hookCalls = <<>>
  /\ genErrors = {}
  /\ genFilter = "none"
  /\ pass = 0
  /\ genPc = "idle"

\* Lines 25-47: the pass starts; every filtered template reads its old
\* contents from nuxt.vfs and starts compiling (the callbacks of map run up
\* to their first await before any compilation settles). A template gets a
\* fresh `modified` in every pass.
GenStart ==
  /\ genPc \in {"idle", "done"}
  /\ pass < MaxPasses
  /\ \E f \in Filters :
       /\ genFilter' = f
       /\ jobs' = [i \in TemplateIds |->
                     IF PassesFilter(f, Templates[i])
                     THEN [status |-> "pending", old |-> vfs[FullPath(Templates[i])],
                           contents |-> Absent, modified |-> Absent]
                     ELSE [NoJob EXCEPT !.status = "filtered"]]
  /\ prevJobs' = jobs
  /\ prevVfs' = vfs
  /\ writes' = <<>> /\ passWrites' = <<>> /\ hookCalls' = <<>>
  /\ genErrors' = {}
  /\ pass' = pass + 1
  /\ genPc' = "compiling"
  /\ UNCHANGED <<appTemplates, vfs, disk, outsideGen>>

\* staging that updates only the alias entry
StageVfs_aliasOnly(v, t, contents) ==
  [v EXCEPT ![AliasOf(t)] = Some(contents)]

\* lines 55-58: nuxt.vfs[fullPath] = contents; nuxt.vfs[aliasPath] = contents
StageVfs(v, t, contents) ==
  [v EXCEPT ![FullPath(t)] = Some(contents), ![AliasOf(t)] = Some(contents)]

\* a compilation step that writes the file at once
DiskAfterCompile_writesNow(d, t, contents, modified) ==
  IF modified /\ t.write THEN [d EXCEPT ![FullPath(t)] = Some(contents)] ELSE d

\* lines 73-78: the write is only pushed onto `writes`; the disk stays as it is
DiskAfterCompile(d, t, contents, modified) == d

\* a comparison that reports every compiled template as modified
IsModified_always(old, contents) == TRUE

\* line 53: template.modified = oldContents !== contents
IsModified(old, contents) == old # Some(contents)

\* a write for every template with the write flag, modified or not
NeedsWrite_anyWritable(t, modified) == t.write

\* line 73: template.modified && template.write
NeedsWrite(t, modified) == modified /\ t.write

\* Lines 48-78 for one template: its compilation settles with `contents`.
CompileSucceeds(i, contents) ==
  /\ genPc = "compiling"
  /\ jobs[i].status = "pending"
  /\ LET t == Templates[i]
         modified == IsModified(jobs[i].old, contents)
     IN /\ jobs' = [jobs EXCEPT ![i] = [@ EXCEPT !.status = "ok",
                                                !.contents = Some(contents),
                                                !.modified = Some(modified)]]
        /\ vfs' = IF modified THEN StageVfs(vfs, t, contents) ELSE vfs
        /\ writes' = IF NeedsWrite(t, modified)
                     THEN Append(writes, [path |-> FullPath(t), contents |-> contents])
                     ELSE writes
        /\ disk' = DiskAfterCompile(disk, t, contents, modified)
  /\ UNCHANGED <<appTemplates, genFilter, genErrors, passWrites, hookCalls, prevVfs, prevJobs,
                 pass, genPc, outsideGen>>

\* a failure that also discards the writes gathered so far in the pass
CompileFails_dropsWrites(i) ==
  /\ genPc = "compiling"
  /\ jobs[i].status = "pending"
  /\ jobs' = [jobs EXCEPT ![i] = [@ EXCEPT !.status = "failed"]]
  /\ genErrors' = genErrors \cup {i}
  /\ writes' = <<>>
  /\ UNCHANGED <<appTemplates, vfs, disk, genFilter, passWrites, hookCalls, prevVfs, prevJobs,
                 pass, genPc, outsideGen>>

\* Lines 48-51 for one template: compileTemplate rejects; the error is logged
\* and rethrown, which rejects this template's promise only.
CompileFails(i) ==
  /\ genPc = "compiling"
  /\ jobs[i].status = "pending"
  /\ jobs' = [jobs EXCEPT ![i] = [@ EXCEPT !.status = "failed"]]
  /\ genErrors' = genErrors \cup {i}
  /\ UNCHANGED <<appTemplates, vfs, disk, writes, genFilter, passWrites, hookCalls, prevVfs, prevJobs,
                 pass, genPc, outsideGen>>

RECURSIVE WriteAll(_, _)
WriteAll(d, ws) ==
  IF ws = <<>> THEN d
  ELSE WriteAll([d EXCEPT ![Head(ws).path] = Some(Head(ws).contents)], Tail(ws))

\* a list of every template of the pass, modified or not
ChangedTemplates_allFiltered ==
  SelectSeq([i \in TemplateIds |-> i], LAMBDA i : jobs[i].status # "filtered")

\* the files as they are before the loop of line 83
DiskSeenByHook_beforeWrites(d, ws) == d

\* lines 83-88: the hook is called after the loop that runs the writes
DiskSeenByHook(d, ws) == WriteAll(d, ws)

\* line 85: filteredTemplates.filter(t => t.modified)
ChangedTemplates ==
  SelectSeq([i \in TemplateIds |-> i], LAMBDA i : jobs[i].modified = Some(TRUE))

\* Lines 83-89, once Promise.allSettled has resolved: run the writes in one
\* synchronous step, then call 'app:templatesGenerated' if a template changed.
GenFinish ==
  /\ genPc = "compiling"
  /\ \A i \in TemplateIds : jobs[i].status # "pending"
  /\ disk' = WriteAll(disk, writes)
  /\ passWrites' = writes
  /\ hookCalls' = IF ChangedTemplates # <<>>
                  THEN <<[templates |-> ChangedTemplates, filter |-> genFilter,
                          disk |-> DiskSeenByHook(disk, writes)]>>
                  ELSE <<>>
  /\ genPc' = "done"
  /\ UNCHANGED <<appTemplates, vfs, jobs, writes, genFilter, genErrors, prevVfs, prevJobs, pass, outsideGen>>

NextGen ==
  \/ GenStart
  \/ \E i \in TemplateIds, c \in Contents : CompileSucceeds(i, c)
  \/ \E i \in TemplateIds : CompileFails(i)
  \/ GenFinish

SpecGen == InitGen /\ [][NextGen]_vars

\* ------------------------------------------------------------------------
\* Prerenderable routes (pages module, 'nitro:init' handler, 581-611)
\* ------------------------------------------------------------------------
\* A path is its '/'-separated segments and whether it starts with '/'.
\* A segment is static text, ':name', ':name?' or ':name(.*)*'.
Static(t) == [kind |-> "static", text |-> t]
Param(t) == [kind |-> "param", text |-> t]
OptionalParam(t) == [kind |-> "optional", text |-> t]
CatchAll(t) == [kind |-> "catchall", text |-> t]
Path(abs, segs) == [abs |-> abs, segs |-> segs]

\* the segment starts with ':'
StartsWithColon(seg) == seg.kind # "static"
\* the segment ends with '?' or with '(.*)*'
EndsOptional(seg) == seg.kind \in {"optional", "catchall"}

\* line 344: /^\/?:.*(\?|\(\.\*\)\*)$/.test(path): after an optional leading
\* '/', the path starts with ':' and it ends with '?' or '(.*)*'
OPTIONAL_PARAM_RE(path) ==
  /\ path.segs # <<>>
  /\ StartsWithColon(path.segs[1])
  /\ EndsOptional(path.segs[Len(path.segs)])

\* a test that finds no ':' in any path
IncludesColon_never(path) == FALSE

\* line 592: page.path.includes(':')
IncludesColon(path) == \E k \in 1..Len(path.segs) : StartsWithColon(path.segs[k])

\* A route is the sequence of its segments; '/' is the empty sequence.
Root == <<>>

\* line 593: joinURL(currentPath, page.path) of ufo: an input that is '' or
\* '/' is dropped, otherwise its leading '/' is removed and it is appended
\* to the base after a '/'
joinURL(base, path) == IF path.segs = <<>> THEN base ELSE base \o path.segs

\* Set.prototype.add on an insertion-ordered set
AddRoute(set, route) == IF route \in Range(set) THEN set ELSE Append(set, route)

Page(path, children) == [path |-> path, children |-> children]

\* childless pages: children undefined or []
LeafPaths ==
  { Path(TRUE, <<>>),                                      \* '/'
    Path(TRUE, <<Static("blog")>>),                        \* '/blog'
    Path(TRUE, <<Static("blog"), OptionalParam("slug")>>), \* '/blog/:slug?'
    Path(TRUE, <<OptionalParam("slug")>>),                 \* '/:slug?'
    Path(TRUE, <<CatchAll("all")>>) }                      \* '/:all(.*)*'
LeafPages == {Page(p, c) : p \in LeafPaths, c \in {Absent, Some(<<>>)}}

\* pages with children
ParentPaths ==
  { Path(TRUE, <<Static("blog")>>),                        \* '/blog'
    Path(TRUE, <<Param("id")>>),                           \* '/:id'
    Path(TRUE, <<OptionalParam("slug")>>) }                \* '/:slug?'
ChildPost == Page(Path(FALSE, <<Static("post")>>), Absent)           \* 'post'
ChildOptional == Page(Path(FALSE, <<OptionalParam("slug")>>), Some(<<>>)) \* ':slug?'
ChildLists == { <<ChildPost>>, <<ChildOptional>>, <<ChildOptional, ChildPost>> }
ParentPages == {Page(p, Some(cs)) : p \in ParentPaths, cs \in ChildLists}

PageLists == SeqsUpTo(LeafPages \cup ParentPages, MaxTopPages)

\* !page.children?.length
NoChildren(page) == ~Has(page.children) \/ page.children[1] = <<>>

\* the optional page's own path joined to currentPath
OptionalRoot_ownPath(currentPath, page) == joinURL(currentPath, page.path)

\* line 590: what a childless optional page adds: currentPath
OptionalRoot(currentPath, page) == currentPath

\* Lines 587-597: processPages(pages, currentPath), from the k-th page of
\* `ps` on. acc.routes is prerenderRoutes; acc.walked holds the position
\* (index path from the top-level list) of every page the loop body ran on.
RECURSIVE processPages(_, _, _, _, _)
processPages(ps, k, currentPath, at, acc) ==
  IF k > Len(ps) THEN acc
  ELSE LET page == ps[k]
           here == Append(at, k)
           a0 == [acc EXCEPT !.walked = @ \cup {here}]
           a1 == IF OPTIONAL_PARAM_RE(page.path) /\ NoChildren(page)
                 THEN [a0 EXCEPT !.routes = AddRoute(@, OptionalRoot(currentPath, page))]
                 ELSE a0
       IN IF IncludesColon(page.path)
          THEN processPages(ps, k + 1, currentPath, at, a1)
          ELSE LET route == joinURL(currentPath, page.path)
                   a2 == [a1 EXCEPT !.routes = AddRoute(@, route)]
                   a3 == IF Has(page.children)
                         THEN processPages(page.children[1], 1, route, here, a2) ELSE a2
               IN processPages(ps, k + 1, currentPath, at, a3)

\* nitro.options.prerender.routes as configured
ConfiguredRoutes == { <<>>, <<Root>>, <<Root, <<Static("about")>> >> }

InitPages ==
  /\ AnnotateIdle /\ _plugins = <<>>
  /\ CheckIdle
  /\ ResolveIdle
  /\ GenIdle
  /\ WatchIdle
  /\ RegenIdle
  /\ RulesIdle
  /\ EntryIdle
  /\ nitroOpts \in [dev : BOOLEAN, static : BOOLEAN, hashMode : BOOLEAN]
  /\ pages \in PageLists
  /\ prerenderRoutes = <<>>
  /\ walked = {}
  /\ nitroRoutes \in ConfiguredRoutes
  /\ pagesPc = "init"

\* Lines 581-584: 'nitro:init'; the two hooks are registered only for a
\* static, non-dev build without hash mode.
NitroInit ==
  /\ pagesPc = "init"
  /\ pagesPc' = IF nitroOpts.dev \/ ~nitroOpts.static \/ nitroOpts.hashMode
                THEN "skipped" ELSE "registered"
  /\ UNCHANGED <<nitroOpts, pages, prerenderRoutes, walked, nitroRoutes, outsidePages>>

\* a handler that goes on with the set as it is
ClearRoutes_keeps(set) == set

\* line 586: prerenderRoutes.clear()
ClearRoutes(set) == <<>>

\* The page list a later 'pages:extend' is called with: the list as it was,
\* or the list after the pages directory lost all pages but the index page.
LaterPageLists(ps) == {ps, <<>>, <<Page(Path(TRUE, <<>>), Absent)>>}

\* Lines 585-599: the 'pages:extend' handler, called with app.pages as
\* resolvePagesRoutes() has just returned it (line 403).
PagesExtend ==
  /\ pagesPc \in {"registered", "extended", "built"}
  /\ \E ps \in (IF pagesPc = "registered" THEN {pages} ELSE LaterPageLists(pages)) :
       LET done == processPages(ps, 1, Root, <<>>,
                                [routes |-> ClearRoutes(prerenderRoutes), walked |-> {}])
       IN /\ pages' = ps
          /\ prerenderRoutes' = done.routes
          /\ walked' = done.walked
  /\ pagesPc' = "extended"
  /\ UNCHANGED <<nitroOpts, nitroRoutes, outsidePages>>

\* a loop that skips every configured route
AddConfigured_skipsAll(set, routes) == set

\* lines 602-607: add every configured route but '/'
RECURSIVE AddConfigured(_, _)
AddConfigured(set, routes) ==
  IF routes = <<>> THEN set
  ELSE AddConfigured(IF Head(routes) = Root THEN set ELSE AddRoute(set, Head(routes)),
                     Tail(routes))

\* Lines 600-610: the 'nitro:build:before' handler.
NitroBuildBefore ==
  /\ pagesPc \in {"registered", "extended"}
  /\ IF nitroRoutes # <<>>
     THEN /\ prerenderRoutes' = AddConfigured(prerenderRoutes, nitroRoutes)
          /\ nitroRoutes' = prerenderRoutes'
     ELSE UNCHANGED <<prerenderRoutes, nitroRoutes>>
  /\ pagesPc' = "built"
  /\ UNCHANGED <<nitroOpts, pages, walked, outsidePages>>

NextPages == NitroInit \/ PagesExtend \/ NitroBuildBefore

SpecPages == InitPages /\ [][NextPages]_vars

\* ------------------------------------------------------------------------
\* 'builder:watch' handlers (nuxt.ts 434-461, pages module 411-429, 542-567)
\* ------------------------------------------------------------------------
\* A file-system path: whether it is absolute, and its segments; a segment
\* is a name and an extension ("" for a directory).
Dir(name) == [stem |-> name, ext |-> ""]
File(stem, ext) == [stem |-> stem, ext |-> ext]
WPath(abs, segs) == [abs |-> abs, segs |-> segs]
DotDot == Dir("..")

\* nuxt.options._layers[l].config.srcDir: the user layer and one extended layer
SrcDirs == << WPath(TRUE, <<Dir("proj")>>), WPath(TRUE, <<Dir("base")>>) >>
WatchLayers == 1..Len(SrcDirs)
srcDir == SrcDirs[1]

RECURSIVE NormalizeSegs(_, _)
NormalizeSegs(done, rest) ==
  IF rest = <<>> THEN done
  ELSE IF Head(rest) = DotDot /\ done # <<>>
       THEN NormalizeSegs(SubSeq(done, 1, Len(done) - 1), Tail(rest))
       ELSE NormalizeSegs(Append(done, Head(rest)), Tail(rest))

\* resolve(base, relativePath) of pathe: an absolute, normalized path
resolve(base, rel) ==
  IF rel.abs THEN WPath(TRUE, NormalizeSegs(<<>>, rel.segs))
  ELSE WPath(TRUE, NormalizeSegs(<<>>, base.segs \o rel.segs))

\* join(dir, name) of pathe
join(base, segs) == WPath(base.abs, NormalizeSegs(<<>>, base.segs \o segs))

RECURSIVE CommonPrefixLen(_, _)
CommonPrefixLen(a, b) ==
  IF a = <<>> \/ b = <<>> \/ Head(a) # Head(b) THEN 0
  ELSE 1 + CommonPrefixLen(Tail(a), Tail(b))

\* relative(from, to) of pathe, for absolute paths
relative(from, to) ==
  LET n == CommonPrefixLen(from.segs, to.segs)
  IN WPath(FALSE, [i \in 1..(Len(from.segs) - n) |-> DotDot]
                    \o SubSeq(to.segs, n + 1, Len(to.segs)))

\* path.startsWith(dir + '/')
StartsWithDir(path, dir) ==
  /\ path.abs = dir.abs
  /\ Len(path.segs) > Len(dir.segs)
  /\ SubSeq(path.segs, 1, Len(dir.segs)) = dir.segs

\* line 558: /^(app|error|app\.config)\.(js|ts|mjs|jsx|tsx|vue)$/i, tested
\* against the whole string of the path: the string is one file name, with
\* no '/' before it
RESTART_RE(path) ==
  /\ ~path.abs
  /\ Len(path.segs) = 1
  /\ path.segs[1].stem \in {"app", "error", "app.config"}
  /\ path.segs[1].ext \in {"js", "ts", "mjs", "jsx", "tsx", "vue"}

\* the relativePath of an event, relative to the user layer's srcDir
EventPaths ==
  { WPath(FALSE, <<Dir("plugins"), File("p", "ts")>>),
    WPath(FALSE, <<DotDot, Dir("base"), Dir("plugins"), File("p", "ts")>>),
    WPath(FALSE, <<Dir("modules"), File("m", "ts")>>),
    WPath(FALSE, <<DotDot, Dir("base"), Dir("modules"), File("m", "ts")>>),
    WPath(FALSE, <<Dir("middleware"), File("auth", "ts")>>),
    WPath(FALSE, <<DotDot, Dir("base"), Dir("layouts"), File("default", "vue")>>),
    WPath(FALSE, <<Dir("pages"), File("index", "vue")>>),
    WPath(FALSE, <<Dir("pages"), File("notes", "md")>>),
    WPath(FALSE, <<Dir("layouts"), File("default", "vue")>>),
    WPath(FALSE, <<Dir("components"), File("x", "vue")>>),
    WPath(FALSE, <<File("app", "vue")>>),
    WPath(FALSE, <<File("error", "vue")>>),
    WPath(FALSE, <<File("app.config", "ts")>>) }
EventKinds == {"add", "change", "unlink"}

\* nuxt.options.watch: strings, and the regular expression /^plugins\//
StringPattern(path) == [type |-> "string", path |-> path]
PluginsDirPattern == [type |-> "regexp", path |-> WPath(FALSE, <<Dir("plugins")>>)]
PatternTest(pattern, p) == StartsWithDir(p, pattern.path)
WatchOptions ==
  { <<>>,
    <<StringPattern(WPath(FALSE, <<Dir("pages"), File("index", "vue")>>))>>,
    <<StringPattern(WPath(TRUE, <<Dir("proj"), Dir("components"), File("x", "vue")>>)),
      PluginsDirPattern>> }

\* nuxt.ts 220-242: the files found in the layers' modules directories when
\* Nuxt was initialised
watchedPaths ==
  {join(SrcDirs[l], <<Dir("modules"), File("m", "ts")>>) : l \in watchEnv.moduleLayers}

\* pages module 381-395: isPagesEnabled(), `found` telling whether router
\* options, a non-empty pages directory or a page exist when it is called
isPagesEnabled(userPreference, found) ==
  IF Has(userPreference) THEN userPreference[1] ELSE found

\* pages module 412-418
restartPaths ==
  UNION {{join(SrcDirs[l], <<Dir("app"), File("router.options", "ts")>>),
          join(SrcDirs[l], <<Dir("pages")>>)} : l \in WatchLayers}

\* only the pages directories
updateTemplatePaths_pagesOnly ==
  {join(SrcDirs[l], <<Dir("pages")>>) : l \in WatchLayers}

\* pages module 543-550
updateTemplatePaths ==
  UNION {{join(SrcDirs[l], <<Dir("pages")>>),
          join(SrcDirs[l], <<Dir("layouts")>>),
          join(SrcDirs[l], <<Dir("middleware")>>)} : l \in WatchLayers}

\* the files of nuxt.apps.default.pages
KnownPageFiles == {{}, {WPath(TRUE, <<Dir("proj"), Dir("pages"), File("index", "vue")>>)}}

\* a test that takes every file below a pages directory for a page
isPage_anyFileInPagesDir(file) ==
  \E l \in WatchLayers : StartsWithDir(file, join(SrcDirs[l], <<Dir("pages")>>))

\* pages module 552-555
isPage(file) == file \in watchEnv.pageFiles

Restart(by, hard) == [hook |-> "restart", by |-> by, hard |-> hard]
UpdateTemplates(filter) == [hook |-> "builder:generateApp", by |-> "pages", hard |-> FALSE,
                            filter |-> filter]
Info(by) == [hook |-> "logger.info", by |-> by, hard |-> FALSE]

InitWatch ==
  /\ AnnotateIdle /\ _plugins = <<>>
  /\ CheckIdle
  /\ ResolveIdle
  /\ GenIdle
  /\ PagesIdle
  /\ RegenIdle
  /\ RulesIdle
  /\ EntryIdle
  /\ watchEnv \in [userPreference : {Absent, Some(TRUE), Some(FALSE)},
                   foundAtSetup : BOOLEAN, foundNow : BOOLEAN,
                   scanPageMeta : BOOLEAN,
                   watch : WatchOptions,
                   moduleLayers : {{2}, {1, 2}},
                   pageFiles : KnownPageFiles]
  /\ watchEvent = <<>>
  /\ watchCalls = <<>>
  /\ watchPc = "emit"

\* nuxt.options.pages as line 395 set it
PagesOption == isPagesEnabled(watchEnv.userPreference, watchEnv.foundAtSetup)

\* The watcher calls the 'builder:watch' hook; its handlers run one after
\* the other in the order of their registration (modules first, line 416,
\* then the handler of line 434).
EmitWatch ==
  /\ watchPc = "emit"
  /\ \E e \in EventKinds, r \in EventPaths : watchEvent' = [event |-> e, relativePath |-> r]
  /\ watchPc' = "pagesRestart"
  /\ UNCHANGED <<watchEnv, watchCalls, outsideWatch>>

\* pages module 420-429
PagesRestartWatch ==
  /\ watchPc = "pagesRestart"
  /\ LET path == resolve(srcDir, watchEvent.relativePath)
         newSetting == isPagesEnabled(watchEnv.userPreference, watchEnv.foundNow)
     IN watchCalls' =
          IF /\ \E p \in restartPaths : p = path \/ StartsWithDir(path, p)
             /\ PagesOption # newSetting
          THEN watchCalls \o <<Info("pagesRestart"), Restart("pagesRestart", FALSE)>>
          ELSE watchCalls
  /\ watchPc' = "pagesTemplates"
  /\ UNCHANGED <<watchEnv, watchEvent, outsideWatch>>

\* pages module 556-567; the module's setup returns at line 453, before it
\* registers this handler, when nuxt.options.pages is false
CallsUpdateTemplates(ev) ==
  LET path == resolve(srcDir, ev.relativePath)
      shouldAlwaysRegenerate == watchEnv.scanPageMeta /\ isPage(path)
  IN IF ~PagesOption THEN FALSE
     ELSE IF ev.event = "change" /\ ~shouldAlwaysRegenerate THEN FALSE
     ELSE \/ shouldAlwaysRegenerate
          \/ \E dir \in updateTemplatePaths : StartsWithDir(path, dir)

PagesTemplatesWatch ==
  /\ watchPc = "pagesTemplates"
  /\ watchCalls' = IF CallsUpdateTemplates(watchEvent)
                   THEN Append(watchCalls, UpdateTemplates("routes.mjs"))
                   ELSE watchCalls
  /\ watchPc' = "core"
  /\ UNCHANGED <<watchEnv, watchEvent, outsideWatch>>

\* the watched-paths test extended to the files of the plugins directories
IsWatchedPath_withPlugins(path) ==
  \/ path \in watchedPaths
  \/ \E l \in WatchLayers : StartsWithDir(path, join(SrcDirs[l], <<Dir("plugins")>>))

\* nuxt.ts 437: watchedPaths.has(path)
IsWatchedPath(path) == path \in watchedPaths

\* nuxt.ts 441: the path relative to every layer's srcDir
layerRelativePaths(path) == {relative(SrcDirs[l], path) : l \in WatchLayers}

\* nuxt.ts 443-453: does the loop over nuxt.options.watch return a restart
MatchesWatchOption(path) ==
  \E i \in 1..Len(watchEnv.watch) :
    LET pattern == watchEnv.watch[i]
    IN IF pattern.type = "string"
       THEN pattern.path = path \/ pattern.path \in layerRelativePaths(path)
       ELSE \E p \in layerRelativePaths(path) : PatternTest(pattern, p)

\* nuxt.ts 457: RESTART_RE.test(path)
IsEntryFile(path) == RESTART_RE(path)

\* nuxt.ts 434-461
CoreWatch ==
  /\ watchPc = "core"
  /\ LET path == resolve(srcDir, watchEvent.relativePath)
         isFileChange == watchEvent.event \in {"add", "unlink"}
     IN watchCalls' =
          IF IsWatchedPath(path) THEN Append(watchCalls, Restart("core", TRUE))
          ELSE IF MatchesWatchOption(path) THEN Append(watchCalls, Restart("core", FALSE))
          ELSE IF isFileChange /\ IsEntryFile(path)
               THEN watchCalls \o <<Info("core"), Restart("core", FALSE)>>
               ELSE watchCalls
  /\ watchPc' = "done"
  /\ UNCHANGED <<watchEnv, watchEvent, outsideWatch>>

NextWatch == EmitWatch \/ PagesRestartWatch \/ PagesTemplatesWatch \/ CoreWatch

SpecWatch == InitWatch /\ [][NextWatch]_vars

\* ------------------------------------------------------------------------
\* Regeneration on watch events (pages module 556-567, generateApp 23-90)
\* ------------------------------------------------------------------------
\* The watcher hands every event to the 'builder:watch' hook when it occurs;
\* the handler of an event runs as its own asynchronous call.
RegenPaths ==
  { WPath(FALSE, <<Dir("pages"), File("index", "vue")>>),
    WPath(FALSE, <<Dir("pages"), File("about", "vue")>>),
    WPath(FALSE, <<Dir("components"), File("x", "vue")>>) }

InitRegen ==
  /\ AnnotateIdle /\ _plugins = <<>>
  /\ CheckIdle
  /\ ResolveIdle
  /\ GenIdle
  /\ PagesIdle
  /\ watchEnv \in [userPreference : {Absent}, foundAtSetup : {TRUE}, foundNow : {TRUE},
                   scanPageMeta : BOOLEAN,
                   watch : {<<>>},
                   moduleLayers : {{2}},
                   pageFiles : KnownPageFiles]
  /\ watchEvent = <<>> /\ watchCalls = <<>> /\ watchPc = "off"
  /\ regen = <<>>
  /\ regenLog = <<>>
  /\ RulesIdle
  /\ EntryIdle

PassInProgress(r) == r.pc \in {"resolveApp", "compile"}

\* a watch event occurs: line 556, the handler is called
WatchEventArrives ==
  /\ Len(regen) < MaxWatchEvents
  /\ \E e \in EventKinds, r \in RegenPaths :
       regen' = Append(regen, [event |-> e, relativePath |-> r, pc |-> "handler",
                               duringPass |-> \E i \in 1..Len(regen) : PassInProgress(regen[i])])
  /\ UNCHANGED <<regenLog, watchEnv, watchEvent, watchCalls, watchPc, outsideRegen>>

\* updateTemplates(options) of @nuxt/kit: it calls generateApp with the
\* options, and the pass runs up to its first await (app.ts 25)
StartPass(i) ==
  /\ regen' = [regen EXCEPT ![i].pc = "resolveApp"]
  /\ regenLog' = Append(regenLog, [what |-> "start", of |-> i])

\* lines 557-566, up to the await of updateTemplates
HandlerRuns(i) ==
  /\ regen[i].pc = "handler"
  /\ IF CallsUpdateTemplates(regen[i])
     THEN StartPass(i)
     ELSE regen' = [regen EXCEPT ![i].pc = "returned"] /\ UNCHANGED regenLog
  /\ UNCHANGED <<watchEnv, watchEvent, watchCalls, watchPc, outsideRegen>>

\* app.ts 25-43: resolveApp and the 'app:templates' hook have been awaited,
\* the filtered templates start compiling
PassCompiles(i) ==
  /\ regen[i].pc = "resolveApp"
  /\ regen' = [regen EXCEPT ![i].pc = "compile"]
  /\ UNCHANGED <<regenLog, watchEnv, watchEvent, watchCalls, watchPc, outsideRegen>>

\* app.ts 43-90 and line 566: the compilations have settled, the pass
\* returns and with it the handler
PassReturns(i) ==
  /\ regen[i].pc = "compile"
  /\ regen' = [regen EXCEPT ![i].pc = "returned"]
  /\ regenLog' = Append(regenLog, [what |-> "end", of |-> i])
  /\ UNCHANGED <<watchEnv, watchEvent, watchCalls, watchPc, outsideRegen>>

NextRegen ==
  \/ WatchEventArrives
  \/ \E i \in 1..Len(regen) : HandlerRuns(i)
  \/ \E i \in 1..Len(regen) : PassCompiles(i)
  \/ \E i \in 1..Len(regen) : PassReturns(i)

SpecRegen == InitRegen /\ [][NextRegen]_vars

\* ------------------------------------------------------------------------
\* Inline route rules (pages module 623-680)
\* ------------------------------------------------------------------------
RuleFiles == {"/proj/pages/a.vue", "/proj/pages/b.vue"}
Globs == {"/a", "/b/**"}
\* pageToGlobMap[path]: a glob, null, or undefined for a path that is no key
GlobValues == Globs \cup {"null", "undefined"}
\* getMappedPages(pages) of pages/route-rules: every page file with its glob,
\* or with null when the page maps to no Nitro route
GlobMaps == [RuleFiles -> GlobValues]

\* what a page's source declares: no defineRouteRules, one of two rules, a
\* declaration that is not JSON-serializable, a source that does not parse
PageCodes == {"none", "rule1", "rule2", "malformed", "broken"}
Rules == {"rule1", "rule2"}
\* extractRouteRules(code) of pages/route-rules
extractRouteRules(code) ==
  CASE code \in Rules -> [threw |-> "", rule |-> code]
    [] code = "none" -> [threw |-> "", rule |-> "none"]
    [] code = "malformed" -> [threw |-> "Error parsing route rules", rule |-> "none"]
    [] OTHER -> [threw |-> "SyntaxError", rule |-> "none"]

RuleKeys == Globs \cup RuleFiles
NoUpdate ==
  [event |-> "", path |-> "", glob |-> "undefined", code |-> "none", logged |-> "",
   escaped |-> FALSE]

InitRules ==
  /\ AnnotateIdle /\ _plugins = <<>>
  /\ CheckIdle
  /\ ResolveIdle
  /\ GenIdle
  /\ PagesIdle
  /\ WatchIdle
  /\ RegenIdle
  /\ EntryIdle
  /\ pageToGlobMap = [f \in RuleFiles |-> "undefined"]
  /\ inlineRules = [k \in RuleKeys |-> "none"]
  /\ routeRules = [k \in RuleKeys |-> "none"]
  /\ updating = <<>>
  /\ lastUpdate = NoUpdate
  /\ onceRegistered = TRUE      \* line 675
  /\ scanQueue = <<>>
  /\ scans = <<>>

\* the hookOnce handler is visiting the pages of the map
Scanning == scanQueue # <<>> \/ (updating # <<>> /\ updating[1].by = "scan")

\* line 676: for (const page in pageToGlobMap), the keys in insertion order
KeysSeq(m) ==
  SelectSeq(<<"/proj/pages/a.vue", "/proj/pages/b.vue">>, LAMBDA f : m[f] # "undefined")

\* a once-only handler that is called before the handler of line 626
MapSeenByScan_before(old, new) == old

\* lines 626 and 675: both handlers are registered for 'pages:extend', the
\* one that replaces the map first, and are called in that order, so the
\* scan reads the map of this emission
MapSeenByScan(old, new) == new

\* a registration that stays after its first call
AfterOnceCall_stays(registered) == registered

\* line 675: hookOnce removes the handler when it is called
AfterOnceCall(registered) == FALSE

\* An emission of 'pages:extend'. Line 626 replaces the map. The first
\* emission also calls the handler of lines 675-678, which starts to visit
\* the keys of the map; with no key, line 677 follows at once. No watch
\* event and no other emission is handled while the scan runs: the first
\* generateApp pass ends before the watcher is started.
PagesExtendRules ==
  /\ ~Scanning
  /\ \E m \in GlobMaps :
       /\ pageToGlobMap' = m
       /\ IF onceRegistered
          THEN LET keys == KeysSeq(MapSeenByScan(pageToGlobMap, m))
               IN /\ onceRegistered' = AfterOnceCall(onceRegistered)
                  /\ scanQueue' = keys
                  /\ scans' = Append(scans, [keys |-> keys, pages |-> <<>>,
                                             state |-> IF keys = <<>> THEN "done" ELSE "running"])
                  /\ routeRules' = IF keys = <<>> THEN inlineRules ELSE routeRules
          ELSE UNCHANGED <<onceRegistered, scanQueue, scans, routeRules>>
  /\ UNCHANGED <<inlineRules, updating, lastUpdate, outsideRules>>

\* line 676: the scan calls updatePage for the next key; lines 637-638
ScanNext ==
  /\ scanQueue # <<>>
  /\ updating = <<>>
  /\ updating' = <<[path |-> Head(scanQueue), glob |-> pageToGlobMap[Head(scanQueue)],
                    by |-> "scan"]>>
  /\ scanQueue' = Tail(scanQueue)
  /\ UNCHANGED <<pageToGlobMap, inlineRules, routeRules, lastUpdate, onceRegistered, scans,
                 outsideRules>>

\* lines 663-673 for an 'unlink' event, or for a path that is not in the map
RulesWatchUnlink(path) ==
  /\ updating = <<>>
  /\ ~Scanning
  /\ IF pageToGlobMap[path] = "undefined"
     THEN UNCHANGED <<inlineRules, pageToGlobMap, routeRules>>
     ELSE /\ inlineRules' = [inlineRules EXCEPT ![path] = "none"]
          /\ pageToGlobMap' = [pageToGlobMap EXCEPT ![path] = "undefined"]
          /\ routeRules' = inlineRules'
  /\ lastUpdate' = [NoUpdate EXCEPT !.event = "unlink", !.path = path,
                                     !.glob = pageToGlobMap[path]]
  /\ UNCHANGED <<updating, onceRegistered, scanQueue, scans, outsideRules>>

\* lines 663-670 and 637-638 for an 'add' or 'change' event of a path in the
\* map: updatePage is called, reads the glob and starts reading the file
RulesWatchUpdate(path) ==
  /\ updating = <<>>
  /\ ~Scanning
  /\ pageToGlobMap[path] # "undefined"
  /\ updating' = <<[path |-> path, glob |-> pageToGlobMap[path], by |-> "watch"]>>
  /\ UNCHANGED <<pageToGlobMap, inlineRules, routeRules, lastUpdate, onceRegistered,
                 scanQueue, scans, outsideRules>>

\* lines 652-659: the catch branch leaves inlineRules as it is
AfterParseError(rules, glob) == rules

\* an assignment under the page's path instead of its glob
StoreRule_byPath(rules, path, glob, rule) == [rules EXCEPT ![path] = rule]

\* line 649: inlineRules[glob] = extractedRule
StoreRule(rules, path, glob, rule) == [rules EXCEPT ![glob] = rule]

\* lines 638-660, then 672 or 676-677: the file has been read (or not), the
\* rule extracted; updatePage returns. The watch handler calls
\* updateRouteConfig; the scan does so after the last key. A rejected
\* readFile leaves the handler, and the loop of the scan, through the await.
UpdatePageReturns ==
  /\ updating # <<>>
  /\ LET path == updating[1].path
         glob == updating[1].glob
         noGlob == glob \notin Globs
         byScan == updating[1].by = "scan"
         last == Len(scans)
         done(code, logged, escaped) ==
           [event |-> "update", path |-> path, glob |-> glob, code |-> code,
            logged |-> logged, escaped |-> escaped]
     IN \/ \* readFile rejects (line 638, outside the try): the error escapes
           /\ lastUpdate' = done("none", "", TRUE)
           /\ scanQueue' = IF byScan THEN <<>> ELSE scanQueue
           /\ scans' = IF byScan THEN [scans EXCEPT ![last].state = "failed"] ELSE scans
           /\ UNCHANGED <<inlineRules, routeRules>>
        \/ \E code \in PageCodes :
             LET x == extractRouteRules(code)
             IN /\ inlineRules' =
                     IF x.threw # "" THEN AfterParseError(inlineRules, glob)
                     ELSE IF x.rule # "none"
                          THEN (IF noGlob THEN inlineRules
                                ELSE StoreRule(inlineRules, path, glob, x.rule))
                          ELSE IF ~noGlob THEN [inlineRules EXCEPT ![glob] = "none"]
                               ELSE inlineRules
                /\ lastUpdate' =
                     done(code,
                          IF x.threw = "Error parsing route rules" THEN "Error parsing route rules"
                          ELSE IF x.threw # "" THEN x.threw
                          ELSE IF x.rule # "none" /\ noGlob THEN "Could not set inline route rules"
                          ELSE "",
                          FALSE)
                /\ routeRules' = IF byScan /\ scanQueue # <<>> THEN routeRules
                                 ELSE inlineRules'
                /\ scans' = IF byScan
                            THEN [scans EXCEPT ![last].pages = Append(@, path),
                                               ![last].state =
                                                 IF scanQueue = <<>> THEN "done" ELSE @]
                            ELSE scans
                /\ UNCHANGED scanQueue
  /\ updating' = <<>>
  /\ UNCHANGED <<pageToGlobMap, onceRegistered, outsideRules>>

NextRules ==
  \/ PagesExtendRules
  \/ \E path \in RuleFiles : RulesWatchUnlink(path)
  \/ \E path \in RuleFiles : RulesWatchUpdate(path)
  \/ ScanNext
  \/ UpdatePageReturns

SpecRules == InitRules /\ [][NextRules]_vars

\* ------------------------------------------------------------------------
\* Entry components of resolveApp (app.ts 93-117, 190)
\* ------------------------------------------------------------------------
\* The layers of the session: 0 is the user layer.
EntryLayers == 0..(MaxLayers - 1)

\* <srcDir>/app.vue and <srcDir>/error.vue of a layer, ~/app.root.vue
AppFile(l) == [kind |-> "app", layer |-> l]
ErrorFile(l) == [kind |-> "error", layer |-> l]
RootFile == [kind |-> "app.root", layer |-> 0]
EntrySources ==
  {AppFile(l) : l \in EntryLayers} \cup {ErrorFile(l) : l \in EntryLayers} \cup {RootFile}

\* files of installed packages, which exist throughout
WelcomeVue == [kind |-> "@nuxt/ui-templates/templates/welcome.vue", layer |-> -1]
PagesAppVue == [kind |-> "pages/runtime/app.vue", layer |-> -1]
NuxtRootVue == [kind |-> "components/nuxt-root.vue", layer |-> -1]
NuxtErrorPageVue == [kind |-> "components/nuxt-error-page.vue", layer |-> -1]

\* findPath(paths): the first path of the list that exists, or null
RECURSIVE findPath(_, _)
findPath(paths, files) ==
  IF paths = <<>> THEN Absent
  ELSE IF Head(paths) \in files THEN Some(Head(paths))
  ELSE findPath(Tail(paths), files)

\* an assignment made in every pass
KeepIfSet_never(current, found) == found

\* lines 95, 102, 108, 113: if (!app.xComponent) { app.xComponent = ... }
KeepIfSet(current, found) == IF Has(current) THEN current ELSE found

\* a ?? b
OrElse(found, fallback) == IF Has(found) THEN found ELSE Some(fallback)

NoEntry == [main |-> Absent, root |-> Absent, error |-> Absent]

\* createApp: a new app object has no entry component
InitEntry ==
  /\ AnnotateIdle /\ _plugins = <<>>
  /\ CheckIdle
  /\ ResolveIdle
  /\ GenIdle
  /\ PagesIdle
  /\ WatchIdle
  /\ RegenIdle
  /\ RulesIdle
  /\ entryFiles \in SUBSET EntrySources
  /\ entryPages \in BOOLEAN
  /\ appEntry = NoEntry
  /\ entryApp = 1
  /\ entryPass = 1
  /\ entryPc = "start"

\* lines 95-117
ResolveEntries ==
  /\ entryPc = "start"
  /\ LET appPaths == [l \in 1..MaxLayers |-> AppFile(l - 1)]
         errorPaths == [l \in 1..MaxLayers |-> ErrorFile(l - 1)]
         main1 == KeepIfSet(appEntry.main, findPath(appPaths, entryFiles))
         main2 == KeepIfSet(main1, Some(WelcomeVue))
     IN appEntry' =
          [main |-> main2,
           root |-> KeepIfSet(appEntry.root,
                              findPath(<<RootFile, NuxtRootVue>>, entryFiles \cup {NuxtRootVue})),
           error |-> KeepIfSet(appEntry.error,
                               OrElse(findPath(errorPaths, entryFiles), NuxtErrorPageVue))]
  /\ entryPc' = "hook"
  /\ UNCHANGED <<entryFiles, entryPages, entryApp, entryPass, outsideEntry>>

\* pages module 571-573: app.mainComponent.includes('@nuxt/ui-templates')
PagesMainComponent(main) == IF main = Some(WelcomeVue) THEN Some(PagesAppVue) ELSE main

\* line 190: the 'app:resolve' handlers run; the one of the pages module
\* replaces the welcome page. resolveApp then returns.
EntryAppResolve ==
  /\ entryPc = "hook"
  /\ appEntry' = IF entryPages
                 THEN [appEntry EXCEPT !.main = PagesMainComponent(appEntry.main)]
                 ELSE appEntry
  /\ entryPc' = "resolved"
  /\ UNCHANGED <<entryFiles, entryPages, entryApp, entryPass, outsideEntry>>

\* an entry source file is added or removed
ToggleFile(files, f) == IF f \in files THEN files \ {f} ELSE files \cup {f}

\* A file is added or removed and no handler restarts: the next
\* generateApp pass calls resolveApp with the same app object.
EntryNextPass ==
  /\ entryPc = "resolved"
  /\ entryPass < MaxEntryPasses
  /\ \E f \in EntrySources : entryFiles' = ToggleFile(entryFiles, f)
  /\ entryPass' = entryPass + 1
  /\ entryPc' = "start"
  /\ UNCHANGED <<entryPages, appEntry, entryApp, outsideEntry>>

\* nuxt.ts 455-460: a file is added or removed and 'restart' is called; the
\* new session resolves a new app object.
EntryRestart ==
  /\ entryPc = "resolved"
  /\ entryApp < MaxApps
  /\ \E f \in EntrySources : entryFiles' = ToggleFile(entryFiles, f)
  /\ appEntry' = NoEntry
  /\ entryApp' = entryApp + 1
  /\ entryPass' = 1
  /\ entryPc' = "start"
  /\ UNCHANGED <<entryPages, outsideEntry>>

NextEntry == ResolveEntries \/ EntryAppResolve \/ EntryNextPass \/ EntryRestart

SpecEntry == InitEntry /\ [][NextEntry]_vars

\* ------------------------------------------------------------------------
\* Properties of annotatePlugins
\* ------------------------------------------------------------------------
Bijections(n) == {f \in [1..n -> 1..n] : \A i, j \in 1..n : f[i] = f[j] => i = j}

\* the extracted order of a plugin's source, absent when extraction fails
ExtractedOrder(src) ==
  IF ExtractThrows(pluginSource[src]) THEN Absent ELSE pluginSource[src].order

\* output entry q stems from input descriptor p
StemsFrom(q, p) ==
  /\ q.src = p.src
  /\ q.order = IF Has(p.order) THEN p.order ELSE ExtractedOrder(p.src)

\* C5: annotatePlugins returns (never throws) a permutation of its input:
\* every input plugin appears exactly once in the output, whatever the
\* dependsOn edges are and whether or not metadata extraction failed.
C5_AnnotateIsPermutation ==
  annotatePc \in {"returned", "threw"} =>
    /\ annotatePc = "returned"
    /\ Len(_plugins) = Len(plugins)
    /\ \E f \in Bijections(Len(plugins)) :
         \A i \in 1..Len(plugins) : StemsFrom(_plugins[f[i]], plugins[i])

\* a run with a dependency cycle a -> b -> a, a plugin whose extraction
\* failed, and an output order that differs from the input order
C5_Witness ==
  /\ annotatePc = "returned"
  /\ Len(plugins) = 3
  /\ \E i, j, k \in 1..3 :
       /\ plugins[i].src = "p1" /\ plugins[j].src = "p2" /\ plugins[k].src = "p3"
       /\ pluginSource["p1"].dependsOn = Some(<<"b">>)
       /\ pluginSource["p2"].dependsOn = Some(<<"a">>)
       /\ ExtractThrows(pluginSource["p3"])
  /\ \E i \in 1..3 : _plugins[i].src # plugins[i].src

\* C7: the returned list is sorted in non-decreasing order of the effective
\* order key (the order when present, orderMap.default otherwise), and an
\* order set on the descriptor takes precedence over the extracted one.
C7_AnnotateSortedByOrder ==
  annotatePc = "returned" =>
    /\ \A i \in 1..(Len(_plugins) - 1) :
         (IF Has(_plugins[i].order) THEN _plugins[i].order[1] ELSE orderMap_default)
           <= (IF Has(_plugins[i + 1].order) THEN _plugins[i + 1].order[1] ELSE orderMap_default)
    /\ \A j \in 1..Len(_plugins) :
         \E i \in 1..Len(plugins) : StemsFrom(_plugins[j], plugins[i])

\* a run where a descriptor's order overrides a different extracted order,
\* another plugin falls back to the default key, and the sort moved plugins
C7_Witness ==
  /\ annotatePc = "returned"
  /\ \E i \in 1..Len(plugins) :
       /\ Has(plugins[i].order) /\ Has(ExtractedOrder(plugins[i].src))
       /\ plugins[i].order # ExtractedOrder(plugins[i].src)
  /\ \E j \in 1..Len(_plugins) : ~Has(_plugins[j].order)
  /\ \E j \in 1..Len(_plugins) : Has(_plugins[j].order) /\ _plugins[j].order[1] > orderMap_default
  /\ \E i \in 1..Len(plugins) : _plugins[i] # CollectPlugins(plugins, pluginSource)[i]

\* ------------------------------------------------------------------------
\* Properties of checkForCircularDependencies
\* ------------------------------------------------------------------------
CyclePlugin(n, d) == [src |-> "p1", name |-> Some(n), order |-> Absent, dependsOn |-> Some(d)]

\* plugins [{name:'a', dependsOn:['b']}, {name:'b', dependsOn:['a']}]
TwoCycleExample == <<CyclePlugin("a", <<"b">>), CyclePlugin("b", <<"a">>)>>

\* the nodes of the cycle a diagnostic reports: from the first occurrence of
\* its last name on
CycleNodes(diag) ==
  LET last == diag[Len(diag)]
      first == CHOOSE i \in 1..Len(diag) :
                 diag[i] = last /\ \A j \in 1..(i - 1) : diag[j] # last
  IN {diag[k] : k \in first..Len(diag)}

\* C6: for the two-plugin cycle exactly one cycle diagnostic is emitted and
\* it names a -> b -> a; in general a dependency cycle is reported by one
\* diagnostic, not by one per plugin on the cycle.
C6_OneDiagnosticPerCycle ==
  checkPc = "done" =>
    /\ given = TwoCycleExample => cycleDiags = << <<"a", "b", "a">> >>
    /\ \A i, j \in 1..Len(cycleDiags) :
         CycleNodes(cycleDiags[i]) = CycleNodes(cycleDiags[j]) => i = j

\* C8: checkForCircularDependencies leaves the list it was given unchanged
\* (same plugins, same order, same name, order and dependsOn values).
C8_CheckLeavesPluginsUnchanged ==
  checkPc \in {"walk", "done", "threw"} => _plugins = given

\* a finished check that reported both a missing dependency and a cycle, on
\* a list with a plugin that has no dependsOn at all
C8_Witness ==
  /\ checkPc = "done"
  /\ missingDiags # <<>>
  /\ cycleDiags # <<>>
  /\ \E i \in 1..Len(_plugins) : ~Has(_plugins[i].dependsOn)

\* C9: checkForCircularDependencies terminates and returns without throwing
\* for every finite plugin list.
C9_CheckTerminates == checkPc = "start" ~> checkPc = "done"

\* a returned check of a list with a self-dependency, a duplicate name and
\* an unnamed plugin that depends on an unregistered name
C9_Witness ==
  /\ checkPc = "done"
  /\ \E i \in 1..Len(given) :
       Has(given[i].name) /\ given[i].dependsOn = Some(<<given[i].name[1]>>)
  /\ \E i, j \in 1..Len(given) : i # j /\ Has(given[i].name) /\ given[i].name = given[j].name
  /\ \E i \in 1..Len(given) :
       /\ ~Has(given[i].name) /\ Has(given[i].dependsOn)
       /\ FilterMissing(given[i].dependsOn[1], PluginNames(given)) # <<>>

\* the names of the plugins of the list
RegisteredNames == {given[i].name[1] : i \in {j \in 1..Len(given) : Has(given[j].name)}}

\* n -> d for every dependsOn entry d of a plugin named n that names a
\* registered plugin
EdgesOfAll ==
  {e \in RegisteredNames \X RegisteredNames :
     \E i \in 1..Len(given) :
       /\ given[i].name = Some(e[1])
       /\ e[2] \in Range(DependsOnOrEmpty(given[i]))}

\* the same, where a name that several plugins have takes the dependsOn of
\* the last of them
EdgesOfLast ==
  {e \in RegisteredNames \X RegisteredNames :
     \E i \in 1..Len(given) :
       /\ given[i].name = Some(e[1])
       /\ \A j \in (i + 1)..Len(given) : given[j].name # Some(e[1])
       /\ e[2] \in Range(DependsOnOrEmpty(given[i]))}

ComposeEdges(R, S) ==
  {e \in RegisteredNames \X RegisteredNames :
     \E y \in RegisteredNames : <<e[1], y>> \in R /\ <<y, e[2]>> \in S}

RECURSIVE PathsUpTo(_, _)
PathsUpTo(E, k) == IF k <= 1 THEN E ELSE E \cup ComposeEdges(PathsUpTo(E, k - 1), E)

\* some name reaches itself along one or more edges
HasDirectedCycle(E) ==
  \E n \in RegisteredNames : <<n, n>> \in PathsUpTo(E, Cardinality(RegisteredNames))

\* the diagnostic lists a path of edges of E and ends in a name it already has
IsCyclePath(diag, E) ==
  /\ Len(diag) >= 2
  /\ \A k \in 1..(Len(diag) - 1) : <<diag[k], diag[k + 1]>> \in E
  /\ \E k \in 1..(Len(diag) - 1) : diag[k] = diag[Len(diag)]

\* C36 as stated: the check emits a cycle diagnostic if and only if the
\* dependsOn edges between the named plugins of the list form a directed
\* cycle, and every diagnostic lists a path of such edges whose last name
\* repeats an earlier one.
C36_DiagnosticIffCycle ==
  /\ \A k \in 1..Len(cycleDiags) : IsCyclePath(cycleDiags[k], EdgesOfAll)
  /\ checkPc = "done" => (cycleDiags # <<>> <=> HasDirectedCycle(EdgesOfAll))

\* C36, amended: the same for the graph in which a name that several plugins
\* of the list have takes the dependsOn list of the last of them.
C36_DiagnosticIffCycleOfLastNamed ==
  /\ \A k \in 1..Len(cycleDiags) : IsCyclePath(cycleDiags[k], EdgesOfLast)
  /\ checkPc = "done" => (cycleDiags # <<>> <=> HasDirectedCycle(EdgesOfLast))

\* a finished check of three plugins that reported the cycle of length three
\* from each of its names, every time as a path of four names
C36_Witness ==
  /\ checkPc = "done"
  /\ Len(cycleDiags) = 3
  /\ \A k \in 1..3 : Len(cycleDiags[k]) = 4 /\ CycleNodes(cycleDiags[k]) = CheckNames

\* ------------------------------------------------------------------------
\* Properties of resolveApp
\* ------------------------------------------------------------------------
ExtendedLayers == 1..(numLayers - 1)

\* layer l holds a layout file / a middleware file that resolves to `name`
HasLayoutNamed(l, name) ==
  \E f \in fs[l] : f.kind = "layouts" /\ getNameFromPath(f, TRUE) = name
HasMiddlewareNamed(l, name) ==
  \E f \in fs[l] : f.kind = "middleware" /\ getNameFromPath(f, FALSE) = name

NonEmptyNames(kind, withDirs) ==
  {getNameFromPath(f, withDirs) : f \in {g \in LayerFiles : g.kind = kind}} \ {<<>>}

\* C2: when the user layer and an extended layer both hold a layout file of
\* the same name, app.layouts[name] after resolveApp is the user layer's file.
C2_UserLayoutWins ==
  resolvePc \in {"hook", "resolved"} =>
    \A name \in NonEmptyNames("layouts", TRUE) :
      (HasLayoutNamed(0, name) /\ \E l \in ExtendedLayers : HasLayoutNamed(l, name)) =>
        /\ name \in DOMAIN app.layouts
        /\ app.layouts[name].file.layer = 0

\* resolveApp has returned; the user layer's layouts/default.vue and the
\* extended layer's layouts/default/index.vue both resolve to "default"
C2_Witness ==
  /\ resolvePc = "resolved"
  /\ numLayers > 1
  /\ HasLayoutNamed(0, <<"default">>) /\ HasLayoutNamed(1, <<"default">>)
  /\ fs[0] # fs[1]
  /\ app.layouts[<<"default">>].file \in {AbsPath(0, f) : f \in fs[0]}

\* C3: when the user layer and an extended layer both hold a middleware file
\* of the same name, the single entry of that name kept by the first
\* de-duplication (before 'app:resolve') is the user layer's file.
C3_UserMiddlewareWins ==
  resolvePc = "hook" =>
    \A name \in NonEmptyNames("middleware", FALSE) :
      (HasMiddlewareNamed(0, name) /\ \E l \in ExtendedLayers : HasMiddlewareNamed(l, name)) =>
        /\ Cardinality({i \in 1..Len(app.middleware) : app.middleware[i].name = name}) = 1
        /\ \A i \in 1..Len(app.middleware) :
             app.middleware[i].name = name => app.middleware[i].path.layer = 0

\* discovery is done and both layers hold middleware/auth.ts
C3_Witness ==
  /\ resolvePc = "hook"
  /\ numLayers > 1
  /\ HasMiddlewareNamed(0, <<"auth">>) /\ HasMiddlewareNamed(1, <<"auth">>)
  /\ Len(app.middleware) = 1

\* the layout and middleware files of all layers whose derived name is empty
UnnamedFiles ==
  {AbsPath(l, f) : l \in 0..(numLayers - 1), f \in LayerFiles} \cap
  {p \in UNION {{AbsPath(l, f) : f \in fs[l]} : l \in 0..(numLayers - 1)} :
     \/ p.file.kind = "layouts" /\ getNameFromPath(p.file, TRUE) = <<>>
     \/ p.file.kind = "middleware" /\ getNameFromPath(p.file, FALSE) = <<>>}

\* C4: a layout or middleware file whose derived name is empty is skipped with
\* a warning and resolveApp goes on without throwing; no key of app.layouts
\* and no discovered entry of app.middleware has the empty name.
C4_UnnamedFilesDropped ==
  resolvePc \in {"hook", "resolved", "threw"} =>
    /\ resolvePc # "threw"
    /\ UnnamedFiles \subseteq resolveWarnings
    /\ <<>> \notin DOMAIN app.layouts
    /\ \A i \in 1..Len(app.middleware) :
         app.middleware[i].path.layer >= 0 => app.middleware[i].name # <<>>

\* discovery went through with layouts/index.vue in one layer and
\* middleware/index.ts in the other: both warned about, neither stored
C4_Witness ==
  /\ resolvePc = "hook"
  /\ \E p, q \in resolveWarnings : p.file.kind = "layouts" /\ q.file.kind = "middleware"
  /\ app.layouts = <<>> /\ app.middleware = <<>>

\* ------------------------------------------------------------------------
\* Properties of generateApp
\* ------------------------------------------------------------------------
\* every template compiled by the finished pass compiled, and to the same
\* contents, in the pass before it
SameCompilationTwice ==
  /\ genPc = "done"
  /\ pass >= 2
  /\ \E i \in TemplateIds : jobs[i].status = "ok"
  /\ \A i \in TemplateIds :
       /\ jobs[i].status # "failed"
       /\ jobs[i].status = "ok" =>
            prevJobs[i].status = "ok" /\ prevJobs[i].contents = jobs[i].contents

\* C1: when generateApp runs twice and every template compiles to the same
\* contents in both passes, the second pass leaves every vfs entry as the
\* first pass left it, marks no template modified, writes no file and does
\* not call 'app:templatesGenerated'.
C1_GenerateAppIdempotent ==
  SameCompilationTwice =>
    /\ vfs = prevVfs
    /\ \A i \in TemplateIds : jobs[i].modified # Some(TRUE)
    /\ passWrites = <<>>
    /\ hookCalls = <<>>

\* a second unfiltered pass in which all three templates compiled to what
\* they compiled to in the first pass, the first pass having written files
C1_Witness ==
  /\ SameCompilationTwice
  /\ \A i \in TemplateIds : jobs[i].status = "ok"
  /\ \E p \in DiskPaths : Has(disk[p])
  /\ \E p, q \in VfsPaths : Has(vfs[p]) /\ Has(vfs[q]) /\ vfs[p] # vfs[q]

\* ------------------------------------------------------------------------
\* Properties of the prerenderable-route set
\* ------------------------------------------------------------------------
\* [{path: '/', children: []}, {path: '/blog/:slug?', children: []}]
BlogSlugPages ==
  << Page(Path(TRUE, <<>>), Some(<<>>)),
     Page(Path(TRUE, <<Static("blog"), OptionalParam("slug")>>), Some(<<>>)) >>

\* C10: for the page list [{path:'/', children:[]}, {path:'/blog/:slug?',
\* children:[]}] the set computed on 'pages:extend' is exactly {'/', '/blog'}
\* and '/blog/:slug' is not in it.
C10_BlogSlugPrerenderSet ==
  (pagesPc = "extended" /\ pages = BlogSlugPages) =>
    /\ Range(prerenderRoutes) = {Root, <<Static("blog")>>}
    /\ <<Static("blog"), Param("slug")>> \notin Range(prerenderRoutes)

\* what the handler computes for that page list: '/' alone
BlogSlugComputedSet ==
  (pagesPc = "extended" /\ pages = BlogSlugPages) => Range(prerenderRoutes) = {Root}

\* the path has a ':' in it
IsDynamicPath(path) == \E k \in 1..Len(path.segs) : path.segs[k].kind # "static"
IsDynamicRoute(route) == \E k \in 1..Len(route) : route[k].kind # "static"

\* C11: right after the 'pages:extend' handler has run, no route of the
\* prerenderable-route set contains a dynamic parameter segment.
C11_NoDynamicRouteAfterExtend ==
  pagesPc = "extended" =>
    \A r \in Range(prerenderRoutes) : ~IsDynamicRoute(r)

\* the handler ran on a list with a childless optional page at the top
\* (which adds '/') and a static parent with an optional child (which adds
\* the parent's route)
C11_Witness ==
  /\ pagesPc = "extended"
  /\ \E i \in 1..Len(pages) :
       OPTIONAL_PARAM_RE(pages[i].path) /\ NoChildren(pages[i])
  /\ \E i \in 1..Len(pages) :
       /\ ~IsDynamicPath(pages[i].path)
       /\ Has(pages[i].children) /\ ChildOptional \in Range(pages[i].children[1])
  /\ Root \in Range(prerenderRoutes)
  /\ <<Static("blog")>> \in Range(prerenderRoutes)

\* the children of the i-th top-level page, as positions
ChildPositions(i) ==
  IF Has(pages[i].children)
  THEN {<<i, j>> : j \in 1..Len(pages[i].children[1])} ELSE {}

\* C12: the children of a page whose own path contains a dynamic parameter
\* segment are still walked by the prerender computation.
C12_DynamicParentChildrenWalked ==
  pagesPc = "extended" =>
    \A i \in 1..Len(pages) :
      IsDynamicPath(pages[i].path) => ChildPositions(i) \subseteq walked

\* C12 as amended: every top-level page is looked at; the children of a page
\* are walked exactly when the page's own path has no dynamic segment, and
\* a dynamic parent's subtree adds no route of its own.
C12_DynamicParentChildrenSkipped ==
  pagesPc = "extended" =>
    /\ \A i \in 1..Len(pages) :
         /\ <<i>> \in walked
         /\ \A c \in ChildPositions(i) : c \in walked <=> ~IsDynamicPath(pages[i].path)
    /\ (\A i \in 1..Len(pages) : IsDynamicPath(pages[i].path)) =>
         Range(prerenderRoutes) \subseteq {Root}

\* the handler ran on '/:id' with the children ':slug?' and 'post', next to
\* '/blog' with the same children
C12_Witness ==
  /\ pagesPc = "extended"
  /\ \E i, j \in 1..Len(pages) :
       /\ pages[i] = Page(Path(TRUE, <<Param("id")>>), Some(<<ChildOptional, ChildPost>>))
       /\ pages[j] = Page(Path(TRUE, <<Static("blog")>>), Some(<<ChildOptional, ChildPost>>))
       /\ <<i, 1>> \notin walked /\ <<j, 2>> \in walked
       /\ <<Static("blog"), Static("post")>> \in Range(prerenderRoutes)

\* ------------------------------------------------------------------------
\* Properties of the 'builder:watch' handlers
\* ------------------------------------------------------------------------
EventPath == resolve(srcDir, watchEvent.relativePath)
\* the event's path lies below the directory `name` of some layer
UnderLayerDir(name) ==
  \E l \in WatchLayers : StartsWithDir(EventPath, join(SrcDirs[l], <<Dir(name)>>))
RestartCalled == \E i \in 1..Len(watchCalls) : watchCalls[i].hook = "restart"
GenerateCalls == SelectSeq(watchCalls, LAMBDA c : c.hook = "builder:generateApp")

C14_PageChangeRegeneratesRoutes ==
  (/\ watchPc = "done" /\ watchEvent.event = "change"
   /\ UnderLayerDir("pages") /\ watchEnv.scanPageMeta) =>
    watchCalls = <<UpdateTemplates("routes.mjs")>>

PagesSettingChanged ==
  PagesOption # isPagesEnabled(watchEnv.userPreference, watchEnv.foundNow)
PathInWatchOption ==
  \E i \in 1..Len(watchEnv.watch) :
    /\ watchEnv.watch[i].type = "string"
    /\ watchEnv.watch[i].path \in {EventPath, watchEvent.relativePath}

\* C14 as amended: with scanPageMeta enabled and the pages module active, a
\* 'change' of a known page's file triggers exactly one updateTemplates,
\* restricted to 'routes.mjs'; a 'change' of any other file triggers none;
\* 'restart' is called only when a nuxt.options.watch entry matches the path
\* or the pages setting differs from the one computed at set-up.
C14_KnownPageChangeRegeneratesRoutes ==
  (watchPc = "done" /\ watchEvent.event = "change" /\ UnderLayerDir("pages")) =>
    /\ (watchEnv.scanPageMeta /\ PagesOption /\ EventPath \in watchEnv.pageFiles) =>
         GenerateCalls = <<UpdateTemplates("routes.mjs")>>
    /\ EventPath \notin watchEnv.pageFiles => GenerateCalls = <<>>
    /\ RestartCalled <=> (PathInWatchOption \/ PagesSettingChanged)

\* pages/index.vue, a known page, changed with scanPageMeta enabled: one
\* routes-only regeneration and nothing else
C14_Witness ==
  /\ watchPc = "done" /\ watchEvent.event = "change"
  /\ watchEnv.scanPageMeta
  /\ EventPath \in watchEnv.pageFiles
  /\ watchCalls = <<UpdateTemplates("routes.mjs")>>

EntryFiles == {File("app", "vue"), File("error", "vue"), File("app.config", "ts")}

\* C15: for an 'add' or 'unlink' of a root-level entry file of the source
\* directory the core handler calls 'restart'; for a 'change' of the same
\* file it does not.
C15_EntryFileAddRestarts ==
  (watchPc = "done" /\ \E f \in EntryFiles : watchEvent.relativePath = WPath(FALSE, <<f>>)) =>
    (Restart("core", FALSE) \in Range(watchCalls) <=> watchEvent.event \in {"add", "unlink"})

\* ------------------------------------------------------------------------
\* Properties of regeneration on watch events
\* ------------------------------------------------------------------------
PassesInProgress == {i \in 1..Len(regen) : PassInProgress(regen[i])}
\* passes started for events that arrived while another pass was running
FollowUpPasses ==
  {k \in 1..Len(regenLog) : regenLog[k].what = "start" /\ regen[regenLog[k].of].duringPass}

\* C16: at most one generateApp pass triggered by watch events is in progress
\* at any time, and the events that arrive during a pass lead to one
\* follow-up pass, not to a pass interleaved with the running one.
C16_RegenerationNeverConcurrent ==
  /\ Cardinality(PassesInProgress) <= 1
  /\ Cardinality(FollowUpPasses) <= 1
  /\ \A k \in 1..(Len(regenLog) - 1) :
       regenLog[k].what = "start" =>
         regenLog[k + 1].what = "end" /\ regenLog[k + 1].of = regenLog[k].of

\* ------------------------------------------------------------------------
\* Properties of the inline route rules
\* ------------------------------------------------------------------------
\* updatePage has just returned from a page whose declaration does not parse
ParseErrorHandled ==
  updating = <<>> /\ lastUpdate.event = "update" /\ lastUpdate.code = "malformed"

\* C17: after updatePage processed a page whose declaration is present but
\* cannot be parsed, an error is logged, no exception escaped and
\* inlineRules holds no entry for the page's glob, whatever the page
\* declared in earlier updates.
C17_ParseErrorLeavesNoEntry ==
  ParseErrorHandled =>
    /\ lastUpdate.logged = "Error parsing route rules"
    /\ ~lastUpdate.escaped
    /\ lastUpdate.glob \in Globs => inlineRules[lastUpdate.glob] = "none"

\* C18: when updatePage returns, a rule extracted for a page with a glob is
\* stored under that glob; a rule extracted for a page without a glob logs an
\* error and adds no entry; no rule for a page with a glob leaves no entry
\* under the glob; and every key of inlineRules is a glob.
C18_UpdatePageOutcome ==
  [][ (/\ updating # <<>> /\ updating' = <<>>
       /\ ~lastUpdate'.escaped
       /\ extractRouteRules(lastUpdate'.code).threw = "") =>
        LET glob == updating[1].glob
            rule == extractRouteRules(lastUpdate'.code).rule
        IN /\ (rule # "none" /\ glob \in Globs) => inlineRules'[glob] = rule
           /\ (rule # "none" /\ glob \notin Globs) =>
                /\ lastUpdate'.logged = "Could not set inline route rules"
                /\ inlineRules' = inlineRules
           /\ (rule = "none" /\ glob \in Globs) => inlineRules'[glob] = "none"
           /\ \A k \in RuleKeys : inlineRules'[k] # "none" => k \in Globs ]_vars

\* both globs hold a rule, the last one stored by the update that just
\* returned; before that a rule for a page mapped to null was refused
C18_Witness ==
  /\ updating = <<>>
  /\ lastUpdate.event = "update" /\ lastUpdate.code = "rule2" /\ lastUpdate.glob = "/b/**"
  /\ inlineRules["/b/**"] = "rule2" /\ inlineRules["/a"] = "rule1"
  /\ \E f \in RuleFiles : pageToGlobMap[f] = "null"

\* ------------------------------------------------------------------------
\* More properties of generateApp
\* ------------------------------------------------------------------------
\* C19: when a template fails to compile, the failure is reported with the
\* template's filename and generateApp rejects: the pass is aborted.
C19_CompileFailureRejects ==
  (genPc \in {"done", "rejected"} /\ \E i \in TemplateIds : jobs[i].status = "failed") =>
    /\ \A i \in TemplateIds : jobs[i].status = "failed" => i \in genErrors
    /\ genPc = "rejected"
    /\ passWrites = <<>> /\ hookCalls = <<>>

\* C20: the files of a pass are written in one step that starts after every
\* compilation of the pass has settled and that ends the pass, with no
\* compilation, hook call or other step in between.
C20_WritesAreOneBatch ==
  [][ disk' # disk =>
        /\ genPc = "compiling" /\ genPc' = "done"
        /\ \A i \in TemplateIds : jobs[i].status # "pending"
        /\ passWrites' = writes
        /\ disk' = WriteAll(disk, writes) ]_vars

\* a pass has written two files after one of its templates failed to compile
C20_Witness ==
  /\ genPc = "done"
  /\ Len(passWrites) = 2
  /\ \A k \in 1..Len(passWrites) : disk[passWrites[k].path] = Some(passWrites[k].contents)
  /\ \E i \in TemplateIds : jobs[i].status = "failed"

\* the pass that just finished wrote the file of template i
WrittenInPass(i, ws) == \E k \in 1..Len(ws) : ws[k].path = FullPath(Templates[i])

\* C21: in the step that ends a pass, a template's file is written if and
\* only if the template was compiled successfully in the pass (so it passed
\* the filter), has write = true and modified = true; a written file holds
\* the compiled contents, every other file stays as it was, and a template
\* compiled to the contents it had before the pass is not written.
C21_WrittenIffModifiedAndWritable ==
  [][ (genPc = "compiling" /\ genPc' = "done") =>
        \A i \in TemplateIds :
          LET t == Templates[i]
              p == FullPath(t)
          IN /\ WrittenInPass(i, passWrites') <=>
                  /\ jobs[i].status = "ok"
                  /\ t.write
                  /\ jobs[i].modified = Some(TRUE)
             /\ WrittenInPass(i, passWrites') => disk'[p] = jobs[i].contents
             /\ ~WrittenInPass(i, passWrites') => disk'[p] = disk[p]
             /\ (jobs[i].status = "ok" /\ jobs[i].contents = prevVfs[p]) =>
                  ~WrittenInPass(i, passWrites') ]_vars

\* a second pass has written one writable template and left alone another
\* writable template that compiled to what it held before
C21_Witness ==
  /\ genPc = "done" /\ pass = 2
  /\ \E i, j \in TemplateIds :
       /\ Templates[i].write /\ Templates[j].write
       /\ jobs[i].status = "ok" /\ jobs[j].status = "ok"
       /\ WrittenInPass(i, passWrites) /\ disk[FullPath(Templates[i])] = jobs[i].contents
       /\ ~WrittenInPass(j, passWrites) /\ jobs[j].contents = prevVfs[FullPath(Templates[j])]
  /\ \E i \in TemplateIds :
       ~Templates[i].write /\ jobs[i].modified = Some(TRUE) /\ ~WrittenInPass(i, passWrites)

\* C22: for every template compiled in a pass, modified is true exactly when
\* the compiled contents differ from what vfs held under the full path
\* before the pass (nothing, in the first pass), and after the pass vfs
\* holds the compiled contents under the full path.
C22_ModifiedIffContentsDiffer ==
  genPc = "done" =>
    \A i \in TemplateIds :
      jobs[i].status = "ok" =>
        LET p == FullPath(Templates[i])
        IN /\ jobs[i].modified = Some(prevVfs[p] # jobs[i].contents)
           /\ pass = 1 => jobs[i].modified = Some(TRUE)
           /\ vfs[p] = jobs[i].contents

\* a second pass compiled one template to new contents and another to the
\* contents it already had
C22_Witness ==
  /\ genPc = "done" /\ pass = 2
  /\ \E i, j \in TemplateIds :
       /\ jobs[i].status = "ok" /\ jobs[i].modified = Some(TRUE)
       /\ Has(prevVfs[FullPath(Templates[i])])
       /\ jobs[j].status = "ok" /\ jobs[j].modified = Some(FALSE)

\* C23: after a pass, for every successfully compiled template the vfs entry
\* under its '#build/' alias equals the entry under its full path, whatever
\* the filenames of the templates are.
C23_AliasHoldsLatestContents ==
  genPc = "done" =>
    \A i \in TemplateIds :
      jobs[i].status = "ok" =>
        vfs[AliasOf(Templates[i])] = vfs[FullPath(Templates[i])]

\* ------------------------------------------------------------------------
\* More properties of resolveApp
\* ------------------------------------------------------------------------
\* an item with its path resolved, as resolvePaths leaves it
ResolvedItem(item, key) == [item EXCEPT ![key] = resolvePath(item[key])]

\* the keys of a list after its paths are resolved
ResolvedKeys(list, key) ==
  [i \in 1..Len(list) |-> IF key = "name" THEN list[i].name ELSE resolvePath(list[i][key])]

\* position j holds the last entry of its key in the list
LastOfKey(list, key, j) ==
  \A k \in (j + 1)..Len(list) : ResolvedKeys(list, key)[k] # ResolvedKeys(list, key)[j]

PairwiseDistinct(seq) == \A i, j \in 1..Len(seq) : seq[i] = seq[j] => i = j

\* C24: at the de-duplication after 'app:resolve', of the middleware with one
\* name and of the plugins with one resolved path, the entry that comes last
\* in the list is the one kept.
C24_LastEntryKept ==
  resolvePc = "resolved" =>
    /\ \A j \in 1..Len(hookedApp.middleware) :
         LastOfKey(hookedApp.middleware, "name", j) =>
           ResolvedItem(hookedApp.middleware[j], "path") \in Range(app.middleware)
    /\ \A j \in 1..Len(hookedApp.plugins) :
         LastOfKey(hookedApp.plugins, "src", j) =>
           ResolvedItem(hookedApp.plugins[j], "src") \in Range(app.plugins)

\* the plugins of nuxt.options.plugins that the layers do not hold, in
\* declaration order
DeclaredOnly ==
  SelectSeq(pluginSetup.declared,
            LAMBDA d : \A i \in 1..Len(LayerPlugins(reversedConfigs)) :
                          LayerPlugins(reversedConfigs)[i].src # d)

\* C25: after discovery, app.plugins starts with the plugins of
\* nuxt.options.plugins whose src the layers do not hold, in declaration
\* order, ahead of every plugin of the layers; no src occurs twice.
C25_DeclaredPluginsFirst ==
  resolvePc = "hook" =>
    /\ Len(app.plugins) >= Len(DeclaredOnly)
    /\ \A k \in 1..Len(DeclaredOnly) :
         app.plugins[k] = ResolvedItem(normalizePlugin(DeclaredOnly[k]), "src")
    /\ \A k \in (Len(DeclaredOnly) + 1)..Len(app.plugins) :
         \E i \in 1..Len(LayerPlugins(reversedConfigs)) :
            app.plugins[k] = ResolvedItem(LayerPlugins(reversedConfigs)[i], "src")
    /\ PairwiseDistinct(ResolvedKeys(app.plugins, "src"))

\* two module plugins are declared, a third declared plugin is also in the
\* user's config, and a layer holds plugins/p.ts
C25_Witness ==
  /\ resolvePc = "hook"
  /\ Len(DeclaredOnly) = 1 /\ Len(pluginSetup.declared) = 2
  /\ Len(app.plugins) = 3
  /\ app.plugins[1].src = ModuleFile("m1")
  /\ app.plugins[3].src.file.kind = "plugins"

\* C26: after resolveApp returned, the names of app.middleware are pairwise
\* distinct and so are the src of app.plugins, and every name and every src
\* that the 'app:resolve' handlers left in the lists is still there.
C26_DistinctAfterHook ==
  resolvePc = "resolved" =>
    /\ PairwiseDistinct(ResolvedKeys(app.middleware, "name"))
    /\ PairwiseDistinct(ResolvedKeys(app.plugins, "src"))
    /\ Range(ResolvedKeys(hookedApp.middleware, "name"))
         = Range(ResolvedKeys(app.middleware, "name"))
    /\ Range(ResolvedKeys(hookedApp.plugins, "src"))
         = Range(ResolvedKeys(app.plugins, "src"))
    /\ \A j \in 1..Len(hookedApp.middleware) :
         (\A k \in 1..Len(hookedApp.middleware) :
            hookedApp.middleware[k].name = hookedApp.middleware[j].name => k = j) =>
           ResolvedItem(hookedApp.middleware[j], "path") \in Range(app.middleware)

\* the handlers added 'validate', which duplicates nothing, and a second
\* 'auth' next to the discovered one
C26_Witness ==
  /\ resolvePc = "resolved"
  /\ Len(hookedApp.middleware) = 3 /\ Len(app.middleware) = 2
  /\ ValidateMiddleware \in Range(app.middleware)
  /\ \E i, j \in 1..3 : i < j /\ hookedApp.middleware[i].name = hookedApp.middleware[j].name

\* the files behind the entries of the three collections
FilesOf(a) ==
  {a.layouts[n].file : n \in DOMAIN a.layouts}
    \cup {a.middleware[i].path : i \in 1..Len(a.middleware)}
    \cup {a.plugins[i].src : i \in 1..Len(a.plugins)}

\* the resolved path of a file of a layer that the layer no longer holds
Gone(path) == path.full /\ path.layer >= 0 /\ path.file \notin fs[path.layer]

\* C27: once a later pass has rebuilt the collections, no layout, middleware
\* or plugin of the pass before whose file is no longer found is in them.
C27_CollectionsRebuilt ==
  (resolvePass >= 2 /\ resolvePc \in {"hook", "hooked", "resolved"}) =>
    \A path \in FilesOf(prevApp) : Gone(path) => path \notin FilesOf(app)

\* the second pass has returned; a file behind an entry of the first pass is
\* gone and an entry of another file is still there
C27_Witness ==
  /\ resolvePass = 2 /\ resolvePc = "resolved"
  /\ \E path \in FilesOf(prevApp) : Gone(path)
  /\ \E path \in FilesOf(app) : path \in FilesOf(prevApp) /\ path.layer >= 0

\* ------------------------------------------------------------------------
\* More properties of the 'builder:watch' handlers
\* ------------------------------------------------------------------------
\* C28: every event whose path lies under the modules directory of a layer
\* ends in a full restart ('restart' called with hard: true), also the 'add'
\* of a module file that was not there when Nuxt was initialised.
C28_ModuleEventRestartsHard ==
  (watchPc = "done" /\ UnderLayerDir("modules")) =>
    \E i \in 1..Len(watchCalls) : watchCalls[i].hook = "restart" /\ watchCalls[i].hard

\* the event's path lies under the pages, layouts or middleware directory of
\* a layer
UnderRoutesRoot == UnderLayerDir("pages") \/ UnderLayerDir("layouts") \/ UnderLayerDir("middleware")

\* C29: every add, change or unlink event whose path lies under the pages,
\* layouts or middleware directory of a layer ends in one updateTemplates
\* call, restricted to 'routes.mjs'.
C29_RoutesRootEventRegenerates ==
  (watchPc = "done" /\ UnderRoutesRoot) =>
    GenerateCalls = <<UpdateTemplates("routes.mjs")>>

\* C29 as the handlers have it: with the pages module active, an add or
\* unlink event under the pages, layouts or middleware directory of a layer
\* ends in one updateTemplates call restricted to 'routes.mjs'; a change
\* event does so only for the file of a known page with scanPageMeta on;
\* without the pages module no event does.
C29_AddOrUnlinkRegeneratesRoutes ==
  (watchPc = "done" /\ UnderRoutesRoot) =>
    IF /\ PagesOption
       /\ \/ watchEvent.event \in {"add", "unlink"}
          \/ watchEnv.scanPageMeta /\ isPage(EventPath)
    THEN GenerateCalls = <<UpdateTemplates("routes.mjs")>>
    ELSE GenerateCalls = <<>>

\* a layout file of the extended layer was removed and the routes template
\* was regenerated
C29_Witness ==
  /\ watchPc = "done"
  /\ watchEvent.event = "unlink"
  /\ EventPath = WPath(TRUE, <<Dir("base"), Dir("layouts"), File("default", "vue")>>)
  /\ GenerateCalls = <<UpdateTemplates("routes.mjs")>>

\* C30: the handlers of one event call the 'restart' hook at most once.
C30_RestartAtMostOnce ==
  Cardinality({i \in 1..Len(watchCalls) : watchCalls[i].hook = "restart"}) <= 1

\* ------------------------------------------------------------------------
\* More properties of the prerenderable-route set
\* ------------------------------------------------------------------------
\* the set computed from a page list alone
RoutesOfPages(ps) ==
  processPages(ps, 1, Root, <<>>, [routes |-> <<>>, walked |-> {}]).routes

\* C31: right after the 'pages:extend' handler ran, the prerenderable-route
\* set is the set computed from the current page list alone; it holds no
\* route of an earlier page list and no configured route that an earlier
\* 'nitro:build:before' added.
C31_RoutesRecomputedOnExtend ==
  pagesPc = "extended" =>
    /\ prerenderRoutes = RoutesOfPages(pages)
    /\ <<Static("about")>> \notin Range(prerenderRoutes)

\* 'nitro:build:before' had added '/about' to the routes of an earlier page
\* list; the page list changed and the handler ran again
C31_Witness ==
  /\ pagesPc = "extended"
  /\ <<Static("about")>> \in Range(nitroRoutes)
  /\ \E r \in Range(nitroRoutes) : r # <<Static("about")>> /\ r \notin Range(prerenderRoutes)

\* C32: when 'nitro:build:before' runs with a non-empty configured list, the
\* list it leaves holds the detected routes and every configured route other
\* than '/', and nothing else; '/' is in it only if it was detected.
C32_ConfiguredRoutesMerged ==
  [][ (pagesPc # "built" /\ pagesPc' = "built" /\ nitroRoutes # <<>>) =>
        /\ Range(nitroRoutes') = Range(prerenderRoutes) \cup (Range(nitroRoutes) \ {Root})
        /\ Root \in Range(nitroRoutes') <=> Root \in Range(prerenderRoutes)
        /\ \A i, j \in 1..Len(nitroRoutes') : nitroRoutes'[i] = nitroRoutes'[j] => i = j ]_vars

\* the configured list was ['/', '/about'] and the pages gave '/blog' but
\* not '/': the result holds '/about' and '/blog' and not '/'
C32_Witness ==
  /\ pagesPc = "built"
  /\ Range(nitroRoutes) = {<<Static("about")>>, <<Static("blog")>>}
  /\ Range(prerenderRoutes) = Range(nitroRoutes)

\* ------------------------------------------------------------------------
\* More properties of the inline route rules
\* ------------------------------------------------------------------------
\* C33: after an 'unlink' event for a page file with a glob that no other
\* page has, inlineRules holds no entry for that glob and neither do the
\* route rules handed to Nitro.
C33_UnlinkRemovesRule ==
  (/\ lastUpdate.event = "unlink"
   /\ lastUpdate.glob \in Globs
   /\ \A f \in RuleFiles : pageToGlobMap[f] # lastUpdate.glob) =>
    /\ inlineRules[lastUpdate.glob] = "none"
    /\ routeRules[lastUpdate.glob] = "none"

C34_FailureLeavesOthersAlone ==
  (genPc = "done" /\ genErrors # {}) =>
    /\ \A i \in TemplateIds :
         (PassesFilter(genFilter, Templates[i]) /\ i \notin genErrors) =>
           /\ jobs[i].status = "ok"
           /\ vfs[FullPath(Templates[i])] = jobs[i].contents
           /\ (jobs[i].modified = Some(TRUE) /\ Templates[i].write) =>
                disk[FullPath(Templates[i])] = jobs[i].contents
    /\ (\E i \in TemplateIds : jobs[i].modified = Some(TRUE)) =>
         /\ Len(hookCalls) = 1
         /\ \A i \in TemplateIds :
              jobs[i].modified = Some(TRUE) =>
                \E k \in 1..Len(hookCalls[1].templates) : hookCalls[1].templates[k] = i

\* a pass in which the first template to settle failed has written the
\* files of the two others and called the hook
C34_Witness ==
  /\ genPc = "done" /\ pass = 1
  /\ Cardinality(genErrors) = 1
  /\ Len(passWrites) >= 1
  /\ Len(hookCalls) = 1 /\ Len(hookCalls[1].templates) = 2
  /\ \E i \in TemplateIds :
       /\ i \notin genErrors /\ Templates[i].write
       /\ disk[FullPath(Templates[i])] = jobs[i].contents
       /\ jobs[i].contents # Absent

\* the template is one that the filter of the pass rejects
ExcludedBy(f, t) == f = "routes" /\ ~(t.base = "routes" /\ t.exts = <<"mjs">>)

\* C37: in no step of a pass with a filter does a template that the filter
\* rejects change: the vfs entry at its full path and its file stay as they
\* are, it is not compiled, the pass assigns it no modified flag, and it is
\* not in the list passed to 'app:templatesGenerated'.
C37_ExcludedTemplatesUntouched ==
  [][ \A i \in TemplateIds :
        (genPc' \in {"compiling", "done"} /\ ExcludedBy(genFilter', Templates[i])) =>
          /\ vfs'[FullPath(Templates[i])] = vfs[FullPath(Templates[i])]
          /\ disk'[FullPath(Templates[i])] = disk[FullPath(Templates[i])]
          /\ jobs'[i].status \notin {"pending", "ok", "failed"}
          /\ jobs'[i].contents = Absent /\ jobs'[i].modified = Absent
          /\ \A c \in 1..Len(hookCalls') :
               \A k \in 1..Len(hookCalls'[c].templates) : hookCalls'[c].templates[k] # i ]_vars

\* a pass filtered to routes.mjs has changed routes.mjs and called the hook
\* with it alone, while vue-router-stub.mjs, written by the pass before,
\* still has the contents of that pass in vfs and on disk
C37_Witness ==
  /\ genPc = "done" /\ pass = 2 /\ genFilter = "routes"
  /\ Len(hookCalls) = 1 /\ Len(hookCalls[1].templates) = 1
  /\ \E i \in TemplateIds :
       /\ ExcludedBy(genFilter, Templates[i]) /\ Templates[i].write
       /\ prevJobs[i].modified = Some(TRUE)
       /\ vfs[FullPath(Templates[i])] = prevJobs[i].contents
       /\ disk[FullPath(Templates[i])] = prevJobs[i].contents
       /\ jobs[i].status = "filtered"

\* the templates of the pass that passed the filter and have modified = true
ModifiedInPass ==
  {i \in TemplateIds :
     PassesFilter(genFilter, Templates[i]) /\ jobs[i].modified = Some(TRUE)}

\* C38: a pass calls 'app:templatesGenerated' at most once and not while
\* templates are compiled; when the pass has ended the hook has been called
\* if and only if a filtered template has modified = true, with exactly
\* those templates, and at the call every write of the pass was on disk.
C38_HookOnceAfterWrites ==
  /\ Len(hookCalls) <= 1
  /\ genPc = "compiling" => hookCalls = <<>>
  /\ genPc = "done" =>
       /\ hookCalls # <<>> <=> ModifiedInPass # {}
       /\ \A c \in 1..Len(hookCalls) :
            /\ Range(hookCalls[c].templates) = ModifiedInPass
            /\ Len(hookCalls[c].templates) = Cardinality(ModifiedInPass)
            /\ \A k \in 1..Len(passWrites) :
                 hookCalls[c].disk[passWrites[k].path] = Some(passWrites[k].contents)

\* a second pass has compiled three templates, of which two changed and one
\* did not, has written one file and then called the hook with the two
C38_Witness ==
  /\ genPc = "done" /\ pass = 2 /\ genFilter = "none"
  /\ \A i \in TemplateIds : jobs[i].status = "ok"
  /\ Cardinality(ModifiedInPass) = 2
  /\ Len(hookCalls) = 1 /\ Len(hookCalls[1].templates) = 2
  /\ Len(passWrites) = 1
  /\ hookCalls[1].disk[passWrites[1].path] = Some(passWrites[1].contents)
  /\ prevJobs[1].status = "ok"

\* ------------------------------------------------------------------------
\* More properties of resolveApp
\* ------------------------------------------------------------------------
\* C39: when resolveApp has returned, the three entry components of the app
\* object are set, and no step of a later pass on the same app object
\* changes any of them, whatever entry source file was added or removed in
\* between; they differ only after a restart has built a new app object.
C39_EntryComponentsKept ==
  /\ [](entryPc = "resolved" =>
          Has(appEntry.main) /\ Has(appEntry.root) /\ Has(appEntry.error))
  /\ [][ (entryApp' = entryApp /\ entryPass' >= 2) => appEntry' = appEntry ]_vars

\* the third pass on one app object has returned: the user layer has an
\* app.vue and no error.vue now, yet the app still uses the component that
\* took the place of the welcome page and the error.vue that is gone
C39_Witness ==
  /\ entryPc = "resolved" /\ entryPass = 3 /\ entryApp = 1
  /\ AppFile(0) \in entryFiles /\ appEntry.main = Some(PagesAppVue)
  /\ ErrorFile(0) \notin entryFiles /\ appEntry.error = Some(ErrorFile(0))

====
